---- MODULE Spec2Model ----
(***************************************************************************)
(* Bulk question upload of the CBT backend: the confirmation step          *)
(* BulkQuestionUploader.save_questions_to_exam against the document store  *)
(* (collections questions, exam_instructions, exams), the soft delete      *)
(* Question.delete_question, and the upload step process_upload with the   *)
(* parse_document wrapper installed by enable_snapshot_parsing.            *)
(*                                                                         *)
(* Every store call (insert_one, find, count_documents, update_one) is one *)
(* atomic step; a handler is a sequence of such steps, so two handlers can *)
(* interleave between store calls.                                         *)
(***************************************************************************)
EXTENDS Integers, Sequences, FiniteSets, TLC

VARIABLES
    questions,          \* collection questions of the exam, in insertion order; _id = index
    exam_instructions,  \* number of documents in collection exam_instructions
    exam,               \* the exam document: a record holding only the fields that are set
    call,               \* per request: the locals of save_questions_to_exam
    calls,              \* number of confirmation requests started so far
    upload,             \* the last process_upload call: its input, what it ran, its result
    processing,         \* the last batch validation: the parse result before and after, the response
    parsing             \* the last parser run: the document, the parser's locals, what it emitted

vars == <<questions, exam_instructions, exam, call, calls, upload, processing, parsing>>

store == <<questions, exam_instructions, exam>>

-----------------------------------------------------------------------------
(* Bounds of the model *)

MaxCalls == 2       \* confirmation requests per behaviour
MaxBatch == 2       \* items (instructions, MCQ drafts, Theory drafts) per payload
MaxFaults == 1      \* failing items per request
MaxBigBatch == 31   \* MCQ drafts of the single large payload of SpecMarks

Procs == {"A", "B"}

DraftMarks == {1, 5}            \* marks a parsed draft may carry

ExamIds == {"exam", "missing", "malformed"}

Shapes == {"legacy", "full"}

\* payload sizes <<instructions, MCQ drafts, Theory drafts>>
Payloads ==
    {s \in (0..MaxBatch) \X (0..MaxBatch) \X (0..MaxBatch) : s[1] + s[2] + s[3] <= MaxBatch}

BigPayloads == (0..1) \X (1..MaxBigBatch) \X (0..1)

-----------------------------------------------------------------------------
(* Helpers *)

Max(a, b) == IF a >= b THEN a ELSE b

Empty == [f \in {} |-> 0]

\* F(v) for a value v that is computed once, as a local variable of the code is
Let(v, F(_)) == CHOOSE r \in {F(x) : x \in {v}} : TRUE

\* Mongo {'$set': d}: the fields of d replace or extend those of doc
SetFields(doc, d) ==
    [f \in (DOMAIN doc) \cup (DOMAIN d) |-> IF f \in DOMAIN d THEN d[f] ELSE doc[f]]

\* variant of count_documents whose filter lacks 'question_type'
count_documents_alltypes(t) ==
    Cardinality({k \in 1..Len(questions) : questions[k].is_active})

\* count_documents({'exam_id': .., 'question_type': t, 'is_active': True})
count_documents(t) ==
    Cardinality({k \in 1..Len(questions) :
                    questions[k].question_type = t /\ questions[k].is_active})

\* Question.get_questions_by_exam followed by the per-type filter
existing_count(t) ==
    Cardinality({k \in 1..Len(questions) :
                    questions[k].is_active /\ questions[k].question_type = t})

total_mcq_marks == 30

\* variant of mcq_marks_per_question without the floor of 1
mcq_marks_per_question_nofloor(n) == total_mcq_marks \div n

\* mcq_marks_per_question = max(1, total_mcq_marks // len(mcq_questions))
mcq_marks_per_question(n) == Max(1, total_mcq_marks \div n)

\* 'marks': mcq_marks_per_question if mcq_questions else question['marks']
McqMarks(n, draft_marks) == IF n > 0 THEN mcq_marks_per_question(n) ELSE draft_marks

IdleCall ==
    [pc |-> "idle", exam_id |-> "exam", n_instr |-> 0, n_mcq |-> 0, n_theory |-> 0,
     i |-> 0, saved_instructions |-> 0, mcq_count |-> 0, theory_count |-> 0,
     saved_mcq |-> <<>>, saved_theory |-> <<>>, errors |-> <<>>,
     update_data |-> Empty, failed |-> {}, result |-> Empty]

Running(p) == call[p].pc \notin {"idle", "done"}

NoUpload == Empty

-----------------------------------------------------------------------------
(* Control flow of save_questions_to_exam between its store calls *)

\* the return at the end of the try block
ReturnSaved(c) ==
    [c EXCEPT !.pc = "done",
              !.result = [success |-> TRUE,
                          saved_mcq |-> Len(c.saved_mcq),
                          saved_theory |-> Len(c.saved_theory),
                          saved_instructions |-> c.saved_instructions,
                          total_saved |-> Len(c.saved_mcq) + Len(c.saved_theory),
                          errors |-> c.errors]]

ReturnError(c, msg) ==
    [c EXCEPT !.pc = "done", !.result = [success |-> FALSE, error |-> msg]]

\* after the loops: the pool recomputation, guarded by what was saved
AfterTheoryPool(c) ==
    IF c.saved_instructions > 0 \/ DOMAIN c.update_data # {}
    THEN [c EXCEPT !.pc = "update"]
    ELSE ReturnSaved(c)

AfterMcqPool(c) ==
    IF c.saved_theory # <<>> THEN [c EXCEPT !.pc = "pool_theory"] ELSE AfterTheoryPool(c)

AfterTheoryLoop(c) ==
    IF c.saved_mcq # <<>> THEN [c EXCEPT !.pc = "pool_mcq"] ELSE AfterMcqPool(c)

AfterMcqLoop(c) ==
    IF c.n_theory > 0 THEN [c EXCEPT !.pc = "theory", !.i = 0] ELSE AfterTheoryLoop(c)

AfterNumbering(c) ==
    IF c.n_mcq > 0 THEN [c EXCEPT !.pc = "mcq", !.i = 0] ELSE AfterMcqLoop(c)

\* variant of NextMcq that leaves the loop after the first item
NextMcqAbort(c) == AfterMcqLoop(c)

\* for-loop step: item i+1 done, go on with the next one or leave the loop
NextMcq(c) == IF c.i + 1 < c.n_mcq THEN [c EXCEPT !.i = c.i + 1] ELSE AfterMcqLoop(c)

NextTheory(c) ==
    IF c.i + 1 < c.n_theory THEN [c EXCEPT !.i = c.i + 1] ELSE AfterTheoryLoop(c)

NextInstruction(c) ==
    IF c.i + 1 < c.n_instr THEN [c EXCEPT !.i = c.i + 1] ELSE [c EXCEPT !.pc = "numbering"]

CanFail(c) == Cardinality(c.failed) < MaxFaults

-----------------------------------------------------------------------------
(* save_questions_to_exam *)

\* the payload is read, the exam is looked up
SaveBegin(p, sizes) ==
    /\ ~Running(p)
    /\ calls < MaxCalls
    /\ calls' = calls + 1
    /\ \E id \in ExamIds, shape \in Shapes, size \in sizes :
         LET c == [IdleCall EXCEPT !.exam_id = id,
                                   !.n_instr = IF shape = "legacy" THEN 0 ELSE size[1],
                                   !.n_mcq = size[2],
                                   !.n_theory = size[3]]
         IN call' = [call EXCEPT ![p] =
                CASE id = "malformed" ->
                        ReturnError(c, "Failed to save questions and instructions")
                  [] id = "missing" \/ ~exam.is_active ->
                        ReturnError(c, "Exam not found")
                  [] OTHER ->
                        IF c.n_instr > 0 THEN [c EXCEPT !.pc = "instructions"]
                        ELSE [c EXCEPT !.pc = "numbering"]]
    /\ UNCHANGED <<store, upload, processing, parsing>>

\* one iteration of the instruction loop
SaveInstruction(p) ==
    LET c == call[p] IN
    /\ c.pc = "instructions"
    /\ \/ /\ exam_instructions' = exam_instructions + 1
          /\ call' = [call EXCEPT ![p] =
                NextInstruction([c EXCEPT !.saved_instructions = c.saved_instructions + 1])]
       \/ /\ CanFail(c)
          /\ exam_instructions' = exam_instructions
          /\ call' = [call EXCEPT ![p] =
                NextInstruction([c EXCEPT !.failed = c.failed \cup {<<"instruction", c.i + 1>>}])]
    /\ UNCHANGED <<questions, exam, calls, upload, processing, parsing>>

\* existing per-type question counts, used to continue the numbering
Numbering(p) ==
    LET c == call[p] IN
    /\ c.pc = "numbering"
    /\ call' = [call EXCEPT ![p] =
            AfterNumbering([c EXCEPT !.mcq_count = existing_count("mcq"),
                                     !.theory_count = existing_count("theory")])]
    /\ UNCHANGED <<store, calls, upload, processing, parsing>>

\* Question.create_question: is_active is set, insert_one appends the document
create_question(question_data) ==
    Append(questions, SetFields(question_data, [is_active |-> TRUE]))

\* one iteration of the MCQ loop
SaveMcq(p) ==
    LET c == call[p] IN
    /\ c.pc = "mcq"
    /\ \E draft_marks \in DraftMarks :
         LET question_data ==
                [question_type |-> "mcq",
                 question_number |-> c.mcq_count + c.i + 1,
                 marks |-> McqMarks(c.n_mcq, draft_marks)]
         IN \/ /\ questions' = create_question(question_data)
               /\ call' = [call EXCEPT ![p] =
                    NextMcq([c EXCEPT !.saved_mcq = Append(c.saved_mcq, Len(questions) + 1)])]
            \/ /\ CanFail(c)
               /\ questions' = questions
               /\ call' = [call EXCEPT ![p] =
                    NextMcq([c EXCEPT !.errors = Append(c.errors, <<"mcq", c.i + 1>>),
                                      !.failed = c.failed \cup {<<"mcq", c.i + 1>>}])]
    /\ UNCHANGED <<exam_instructions, exam, calls, upload, processing, parsing>>

\* one iteration of the Theory loop
SaveTheory(p) ==
    LET c == call[p] IN
    /\ c.pc = "theory"
    /\ \E draft_marks \in DraftMarks :
         LET question_data ==
                [question_type |-> "theory",
                 question_number |-> c.theory_count + c.i + 1,
                 marks |-> draft_marks]
         IN \/ /\ questions' = create_question(question_data)
               /\ call' = [call EXCEPT ![p] =
                    NextTheory([c EXCEPT !.saved_theory = Append(c.saved_theory, Len(questions) + 1)])]
            \/ /\ CanFail(c)
               /\ questions' = questions
               /\ call' = [call EXCEPT ![p] =
                    NextTheory([c EXCEPT !.errors = Append(c.errors, <<"theory", c.i + 1>>),
                                         !.failed = c.failed \cup {<<"theory", c.i + 1>>}])]
    /\ UNCHANGED <<exam_instructions, exam, calls, upload, processing, parsing>>

\* if saved_mcq: count the active MCQ questions
PoolMcq(p) ==
    LET c == call[p]
        mcq_pool_count == count_documents("mcq")
    IN
    /\ c.pc = "pool_mcq"
    /\ call' = [call EXCEPT ![p] =
            AfterMcqPool([c EXCEPT !.update_data =
                SetFields(c.update_data, [mcq_pool_count |-> mcq_pool_count,
                                          has_mcq |-> mcq_pool_count > 0])])]
    /\ UNCHANGED <<store, calls, upload, processing, parsing>>

\* if saved_theory: count the active Theory questions
PoolTheory(p) ==
    LET c == call[p]
        theory_pool_count == count_documents("theory")
    IN
    /\ c.pc = "pool_theory"
    /\ call' = [call EXCEPT ![p] =
            AfterTheoryPool([c EXCEPT !.update_data =
                SetFields(c.update_data, [theory_pool_count |-> theory_pool_count,
                                          has_theory |-> theory_pool_count > 0])])]
    /\ UNCHANGED <<store, calls, upload, processing, parsing>>

\* Exam.update_exam(exam_id, update_data): one update_one with $set
update_exam(update_data) == SetFields(exam, update_data)

\* if saved_instructions: has_instructions; if update_data: Exam.update_exam; return
UpdateExam(p) ==
    LET c == call[p]
        update_data == IF c.saved_instructions > 0
                       THEN SetFields(c.update_data, [has_instructions |-> TRUE])
                       ELSE c.update_data
    IN
    /\ c.pc = "update"
    /\ exam' = update_exam(update_data)
    /\ call' = [call EXCEPT ![p] = ReturnSaved([c EXCEPT !.update_data = update_data])]
    /\ UNCHANGED <<questions, exam_instructions, calls, upload, processing, parsing>>

Step(p) ==
    \/ SaveInstruction(p)
    \/ Numbering(p)
    \/ SaveMcq(p)
    \/ SaveTheory(p)
    \/ PoolMcq(p)
    \/ PoolTheory(p)
    \/ UpdateExam(p)

\* Question.delete_question: soft delete of a stored, active question
delete_question(id) ==
    /\ id \in 1..Len(questions)
    /\ questions[id].is_active
    /\ questions' = [questions EXCEPT ![id].is_active = FALSE]
    /\ UNCHANGED <<exam_instructions, exam, call, calls, upload, processing, parsing>>

Quiet == \A p \in Procs : ~Running(p)

-----------------------------------------------------------------------------
(* process_upload and the parse_document wrapper *)

max_file_size == 50 * 1024 * 1024

\* sizes in bytes of an uploaded artifact
Sizes == {0, 1, max_file_size, max_file_size + 1}

\* file names as sent by the client; "" is a missing name
Filenames ==
    {"", "paper", "paper.txt", "paper.docx", "PAPER.DOCX", "paper.doc", "paper.pdf",
     "paper.html", "paper.htm", "paper.xlsx", "paper.xls"}

\* os.path.splitext(secure_filename(name).lower())[1]
file_ext(name) ==
    CASE name \in {"paper.docx", "PAPER.DOCX"} -> ".docx"
      [] name = "paper.doc" -> ".doc"
      [] name = "paper.pdf" -> ".pdf"
      [] name = "paper.html" -> ".html"
      [] name = "paper.htm" -> ".htm"
      [] name = "paper.xlsx" -> ".xlsx"
      [] name = "paper.xls" -> ".xls"
      [] name = "paper.txt" -> ".txt"
      [] OTHER -> ""

allowed_extensions == {".docx", ".doc", ".pdf", ".html", ".htm", ".xlsx", ".xls"}

\* the upload object; present = FALSE is a missing (falsy) file
NoFile ==
    [present |-> FALSE, filename |-> "", has_content_length |-> FALSE,
     content_length |-> 0, size |-> 0]

Files ==
    {NoFile} \cup
    {f \in [present : {TRUE}, filename : Filenames, has_content_length : BOOLEAN,
            content_length : Sizes, size : Sizes] :
        \* the reported length is the real one or 0 (not reported)
        /\ f.content_length \in {0, f.size}
        /\ (~f.has_content_length => f.content_length = 0)}

\* the bytes of the artifact, as far as the parsers tell them apart
Contents == [doc : {"d1", "d2"}, readable : BOOLEAN, snapshot_breaks : BOOLEAN]

QuestionTypes == {"mcq", "theory", "auto"}

ValidationModes == {"strict", "lenient"}

Raised == [raised |-> TRUE]

Returned(v) == [raised |-> FALSE, value |-> v]

\* BulkQuestionUploader._validate_file
validate_file(file) ==
    IF ~file.present THEN [valid |-> FALSE, error |-> "No file provided"]
    ELSE IF file.filename = "" THEN [valid |-> FALSE, error |-> "No filename provided"]
    ELSE IF file_ext(file.filename) \notin allowed_extensions
         THEN [valid |-> FALSE, error |-> "Unsupported file type"]
    ELSE IF file.has_content_length /\ file.content_length # 0
            /\ file.content_length > max_file_size
         THEN [valid |-> FALSE, error |-> "File too large"]
    ELSE [valid |-> TRUE]

\* the 'format' of a parse result of DocumentParser.parse_document
format_of(ext) ==
    CASE ext = ".docx" -> "docx"
      [] ext \in {".xlsx", ".xls"} -> "excel"
      [] OTHER -> "html"

\* DocumentParser.parse_document before it is patched (the Line-Classification
\* Parser): it raises on an unsupported extension or an unreadable container; its
\* result is determined by the bytes, the format and the requested question type
original_parse(content, filename, question_type) ==
    IF file_ext(filename) \notin allowed_extensions \/ ~content.readable
    THEN Raised
    ELSE Returned([format |-> format_of(file_ext(filename)),
                   doc |-> content.doc,
                   question_type |-> question_type])

\* SnapshotParser.parse_docx_snapshot: raises when the container cannot be opened
\* or the capture breaks; the requested question type is not an input
parse_docx_snapshot(content, filename) ==
    IF ~content.readable \/ content.snapshot_breaks
    THEN Raised
    ELSE Returned([format |-> "docx_snapshot", doc |-> content.doc, question_type |-> "mcq"])

\* variant of enhanced_parse that lets a snapshot failure through
enhanced_parse_nofallback(content, filename, question_type) ==
    IF file_ext(filename) = ".docx"
    THEN [ran |-> <<"snapshot">>, outcome |-> parse_docx_snapshot(content, filename)]
    ELSE [ran |-> <<"line">>, outcome |-> original_parse(content, filename, question_type)]

\* enhanced_parse, installed as DocumentParser.parse_document: the parsers it
\* ran, in order, and what it returned or that it raised; an exception of the
\* original parser on another format is caught too, and the parser is run again
enhanced_parse(content, filename, question_type) ==
    IF file_ext(filename) = ".docx"
    THEN IF parse_docx_snapshot(content, filename).raised
         THEN [ran |-> <<"snapshot", "line">>,
               outcome |-> original_parse(content, filename, question_type)]
         ELSE [ran |-> <<"snapshot">>, outcome |-> parse_docx_snapshot(content, filename)]
    ELSE IF original_parse(content, filename, question_type).raised
         THEN [ran |-> <<"line", "line">>,
               outcome |-> original_parse(content, filename, question_type)]
         ELSE [ran |-> <<"line">>, outcome |-> original_parse(content, filename, question_type)]

ProcessingFailed == [success |-> FALSE, error |-> "Processing failed"]

\* process_upload from file.read() on: read, parse, validate the batch, respond
ParseAndProcess(done, file, content, exam_id, question_type, validation_mode) ==
    LET parse == enhanced_parse(content, file.filename, question_type) IN
    IF parse.outcome.raised
    THEN [ran |-> done \o <<"read">> \o parse.ran,
          parse |-> parse.outcome,
          result |-> ProcessingFailed]
    ELSE [ran |-> done \o <<"read">> \o parse.ran \o <<"validate_batch">>,
          parse |-> parse.outcome,
          result |-> [success |-> TRUE,
                      exam_id |-> exam_id,
                      filename |-> file.filename,
                      format |-> parse.outcome.value.format,
                      validation_mode |-> validation_mode]]

\* variant of LoadExam without the return on a missing exam
LoadExam_noreturn(done, file, content, exam_id, question_type, validation_mode) ==
    ParseAndProcess(done \o <<"find_exam">>, file, content, exam_id,
                    question_type, validation_mode)

\* process_upload from Exam.find_by_id on: a malformed id raises in ObjectId
LoadExam(done, file, content, exam_id, question_type, validation_mode) ==
    IF exam_id = "malformed"
    THEN [ran |-> done \o <<"find_exam">>, parse |-> Raised, result |-> ProcessingFailed]
    ELSE IF exam_id = "missing" \/ ~exam.is_active
    THEN [ran |-> done \o <<"find_exam">>, parse |-> Raised,
          result |-> [success |-> FALSE, error |-> "Exam not found"]]
    ELSE ParseAndProcess(done \o <<"find_exam">>, file, content, exam_id,
                         question_type, validation_mode)

\* what process_upload ran and what it returned
upload_outcome(file, content, exam_id, question_type, validation_mode) ==
    LET validation_result == validate_file(file) IN
    IF ~validation_result.valid
    THEN [ran |-> <<"validate_file">>, parse |-> Raised, result |-> validation_result]
    ELSE LoadExam(<<"validate_file">>, file, content, exam_id, question_type,
                  validation_mode)

\* one upload request per behaviour: process_upload keeps nothing between requests
process_upload ==
    /\ upload = NoUpload
    /\ \E file \in Files, content \in Contents, exam_id \in ExamIds,
          question_type \in QuestionTypes, validation_mode \in ValidationModes :
         \* no bytes make no container: only the text formats decode an empty artifact
         /\ (file.size = 0 /\ file_ext(file.filename) \notin {".html", ".htm"})
                => ~content.readable
         /\ upload' = SetFields([file |-> file, content |-> content, exam_id |-> exam_id,
                              question_type |-> question_type],
                             upload_outcome(file, content, exam_id, question_type,
                                            validation_mode))
    /\ UNCHANGED <<store, call, calls, processing, parsing>>

-----------------------------------------------------------------------------
(* QuestionValidator and the batch validation of BulkQuestionUploader *)

MaxOptions == 2         \* options of a draft of the validation model
MaxSubQuestions == 2    \* sub-questions of a draft of the validation model

\* Python values of a field whose type varies: None, an int, a str
None == [none |-> TRUE]

PyInt(n) == [int |-> n]

PyStr(s) == [str |-> s]

IsInt(v) == "int" \in DOMAIN v

IsStr(v) == "str" \in DOMAIN v

\* dict.get(k, default)
Get(d, k, default) == IF k \in DOMAIN d THEN d[k] ELSE default

\* str.strip() on the texts of the model
strip(s) == IF s = " " THEN "" ELSE s

\* sequences over S of length at most n
SeqsUpTo(S, n) == UNION {[1..k -> S] : k \in 0..n}

\* every way of leaving out some of the optional fields of a record
Partial(full, optional) ==
    {[f \in (DOMAIN full) \ missing |-> full[f]] : missing \in SUBSET optional}

Texts == {"", " ", "Q"}

OptionTexts == {"", "A", "Option 2"}

\* MCQ drafts are these, each with or without the keys 'options', 'correct_option'
\* and 'marks'
McqFull ==
    [question_text : Texts,
     options : SeqsUpTo(OptionTexts, MaxOptions),
     correct_option : {None} \cup {PyInt(n) : n \in -1..MaxOptions},
     marks : {None, PyInt(0), PyInt(2)},
     instruction_id : {None, PyStr("ins-1"), PyInt(7)}]


\* sub-questions, with or without the keys 'sub_text' and 'sub_marks'
SubQuestions ==
    UNION {Partial(sq, {"sub_text", "sub_marks"}) :
                sq \in [sub_number : {"a"}, sub_text : {"", "T"}, sub_marks : {0, 3}]}

\* Theory drafts are these, each with or without the keys 'sub_questions' and 'marks'
TheoryFull ==
    [question_text : {"", "Q"},
     sub_questions : SeqsUpTo(SubQuestions, MaxSubQuestions),
     marks : {0, 5},
     instruction_id : {None, PyStr("ins-1"), PyInt(7)}]

\* the instruction_id check shared by both question validators
instruction_id_errors(question) ==
    LET instruction_id == Get(question, "instruction_id", None) IN
    IF instruction_id # None /\ ~IsStr(instruction_id)
    THEN <<(<<"Instruction ID must be a string", 0>>)>>
    ELSE <<>>

\* QuestionValidator.validate_mcq_question: the list of errors, or the TypeError
\* of `marks <= 0` on a marks value that is not a number
validate_mcq_question(question) ==
    LET options == Get(question, "options", <<>>)
        correct_option == Get(question, "correct_option", None)
        marks == Get(question, "marks", PyInt(0))
    IN
    IF ~IsInt(marks) THEN Raised
    ELSE Returned(
        (IF strip(Get(question, "question_text", "")) = ""
         THEN <<(<<"Question text is required", 0>>)>> ELSE <<>>)
        \o (IF Len(options) < 2
            THEN <<(<<"MCQ must have at least 2 options", 0>>)>> ELSE <<>>)
        \o (IF correct_option = None \/ correct_option.int < 0
                \/ correct_option.int >= Len(options)
            THEN <<(<<"Valid correct option must be specified", 0>>)>> ELSE <<>>)
        \o (IF marks.int <= 0 THEN <<(<<"Marks must be positive", 0>>)>> ELSE <<>>)
        \o instruction_id_errors(question))

RECURSIVE sub_question_errors(_, _)
\* the loop over sub_questions, from sub-question i on
sub_question_errors(sub_questions, i) ==
    IF i > Len(sub_questions) THEN <<>>
    ELSE (IF strip(Get(sub_questions[i], "sub_text", "")) = ""
          THEN <<(<<"Sub-question text is required", i>>)>> ELSE <<>>)
         \o (IF Get(sub_questions[i], "sub_marks", 0) <= 0
             THEN <<(<<"Sub-question marks must be positive", i>>)>> ELSE <<>>)
         \o sub_question_errors(sub_questions, i + 1)

RECURSIVE sum_sub_marks(_, _, _)
\* sum(sq.get('sub_marks', default) for sq in sub_questions), from sub-question i on
sum_sub_marks(sub_questions, default, i) ==
    IF i > Len(sub_questions) THEN 0
    ELSE Get(sub_questions[i], "sub_marks", default)
            + sum_sub_marks(sub_questions, default, i + 1)

\* QuestionValidator.validate_theory_question
validate_theory_question(question) ==
    LET sub_questions == Get(question, "sub_questions", <<>>) IN
    Returned(
        (IF sub_questions = <<>>
         THEN <<(<<"Theory question must have at least one sub-question", 0>>)>> ELSE <<>>)
        \o sub_question_errors(sub_questions, 1)
        \o (IF sum_sub_marks(sub_questions, 0, 1) <= 0
            THEN <<(<<"Total marks must be positive", 0>>)>> ELSE <<>>)
        \o instruction_id_errors(question))

validate_question(question, q_type) ==
    IF q_type = "mcq" THEN validate_mcq_question(question)
    ELSE validate_theory_question(question)

RECURSIVE pad_options(_)
\* while len(options) < 2: options.append(f"Option {len(options) + 1}")
pad_options(options) ==
    IF Len(options) >= 2 THEN options
    ELSE pad_options(Append(options, IF Len(options) = 0 THEN "Option 1" ELSE "Option 2"))

\* the list object 'options' of the draft after `options.append(..)` in the
\* repair: fixed_question is a shallow copy, so a list the draft holds is the
\* list the repair appends to
options_after_fix(question) ==
    IF "options" \in DOMAIN question
    THEN [question EXCEPT !.options = pad_options(question.options)]
    ELSE question

\* _attempt_fix_question for an MCQ draft, before the validation of the result
fix_mcq(question) ==
    LET with_correct == IF "correct_option" \in DOMAIN question THEN question
                        ELSE SetFields(question, [correct_option |-> PyInt(0)])
        with_options == SetFields(with_correct,
                            [options |-> pad_options(Get(question, "options", <<>>))])
        marks == Get(with_options, "marks", None)
    IN IF marks = None \/ marks.int <= 0
       THEN SetFields(with_options, [marks |-> PyInt(1)])
       ELSE with_options

\* _attempt_fix_question for a Theory draft, before the validation of the result
fix_theory(question) ==
    LET sub_questions ==
            IF Get(question, "sub_questions", <<>>) = <<>>
            THEN <<[sub_number |-> "a",
                    sub_text |-> Get(question, "question_text", "Default question"),
                    sub_marks |-> Get(question, "marks", 1)]>>
            ELSE question.sub_questions
    IN SetFields(question, [sub_questions |-> sub_questions,
                            marks |-> sum_sub_marks(sub_questions, 1, 1)])

fix_question(question, q_type) ==
    IF q_type = "mcq" THEN fix_mcq(question) ELSE fix_theory(question)

\* variant of _attempt_fix_question that returns the repaired draft unvalidated
attempt_fix_question_unvalidated(question, q_type) ==
    [fixed_question |-> <<fix_question(question, q_type)>>,
     question |-> IF q_type = "mcq" THEN options_after_fix(question) ELSE question]

\* variant of _attempt_fix_question that keeps a missing correct_option missing
attempt_fix_question_nodefault(question, q_type) ==
    LET fixed_question ==
            IF q_type = "mcq" /\ "correct_option" \notin DOMAIN question
            THEN [f \in (DOMAIN fix_mcq(question)) \ {"correct_option"} |->
                        fix_mcq(question)[f]]
            ELSE fix_question(question, q_type)
        validation == validate_question(fixed_question, q_type)
    IN [fixed_question |-> IF ~validation.raised /\ validation.value = <<>>
                           THEN <<fixed_question>> ELSE <<>>,
        question |-> IF q_type = "mcq" THEN options_after_fix(question) ELSE question]

\* _attempt_fix_question: fixed_question is <<the repaired draft>>, or <<>> for
\* None; question is the draft passed in, as it is after the call
attempt_fix_question(question, q_type) ==
    Let(fix_question(question, q_type), LAMBDA fixed_question :
        Let(validate_question(fixed_question, q_type), LAMBDA validation :
            [fixed_question |-> IF ~validation.raised /\ validation.value = <<>>
                                THEN <<fixed_question>> ELSE <<>>,
             question |-> IF q_type = "mcq" THEN options_after_fix(question)
                          ELSE question]))

NoItem == [valid |-> <<>>, invalid |-> <<>>, errors |-> <<>>, questions |-> <<>>]

\* variant of validate_item that drops a draft whose repair failed
validate_item_dropping(question, q_type, validation_mode, i) ==
    LET validation == validate_question(question, q_type)
        fix == attempt_fix_question(question, q_type)
    IN IF ~validation.raised /\ validation.value # <<>> /\ validation_mode = "lenient"
            /\ fix.fixed_question = <<>>
       THEN [NoItem EXCEPT !.questions = <<fix.question>>]
       ELSE IF ~validation.raised /\ validation.value = <<>>
       THEN [NoItem EXCEPT !.valid = <<question>>, !.questions = <<question>>]
       ELSE [NoItem EXCEPT !.invalid = <<[question |-> question, errors |-> <<>>]>>,
                           !.questions = <<question>>]

\* one iteration of the loop of _validate_questions_batch on item i: what it
\* appends to valid_questions, invalid_questions and errors, and the item after it
validate_item(question, q_type, validation_mode, i) ==
    LET note(kind, errors) == [q_type |-> q_type, i |-> i, note |-> kind, errors |-> errors]
    IN Let(validate_question(question, q_type), LAMBDA validation :
       CASE validation.raised ->
                [valid |-> <<>>,
                 invalid |-> <<[question |-> question,
                                errors |-> <<(<<"Validation error", 0>>)>>]>>,
                 errors |-> <<note("Validation error", <<>>)>>,
                 questions |-> <<question>>]
         [] ~validation.raised /\ validation.value = <<>> ->
                [valid |-> <<question>>, invalid |-> <<>>, errors |-> <<>>,
                 questions |-> <<question>>]
         [] ~validation.raised /\ validation.value # <<>> /\ validation_mode = "lenient" ->
                Let(attempt_fix_question(question, q_type), LAMBDA fix :
                    IF fix.fixed_question # <<>>
                    THEN [valid |-> fix.fixed_question,
                          invalid |-> <<>>,
                          errors |-> <<note("Fixed automatically", validation.value)>>,
                          questions |-> <<fix.question>>]
                    ELSE [valid |-> <<>>,
                          invalid |-> <<[question |-> fix.question,
                                         errors |-> validation.value]>>,
                          errors |-> <<note("", validation.value)>>,
                          questions |-> <<fix.question>>])
         [] OTHER ->
                [valid |-> <<>>,
                 invalid |-> <<[question |-> question, errors |-> validation.value]>>,
                 errors |-> <<note("", validation.value)>>,
                 questions |-> <<question>>])

RECURSIVE Flatten(_, _)
\* the concatenation of the lists lists[i], lists[i + 1], ...
Flatten(lists, i) == IF i > Len(lists) THEN <<>> ELSE lists[i] \o Flatten(lists, i + 1)

\* variant of _validate_questions_batch that, in lenient mode, returns the valid
\* drafts last first
validate_questions_batch_reversing(questions_, q_type, validation_mode) ==
    Let([i \in 1..Len(questions_) |->
            validate_item(questions_[IF validation_mode = "lenient"
                                     THEN Len(questions_) + 1 - i ELSE i],
                          q_type, validation_mode,
                          IF validation_mode = "lenient" THEN Len(questions_) + 1 - i ELSE i)],
        LAMBDA items :
            [valid |-> Flatten([i \in DOMAIN items |-> items[i].valid], 1),
             invalid |-> Flatten([i \in DOMAIN items |-> items[i].invalid], 1),
             errors |-> Flatten([i \in DOMAIN items |-> items[i].errors], 1),
             questions |-> questions_])

\* _validate_questions_batch: valid, invalid and errors as returned; questions
\* is the list passed in, as it is after the call
validate_questions_batch(questions_, q_type, validation_mode) ==
    Let([i \in 1..Len(questions_) |->
            validate_item(questions_[i], q_type, validation_mode, i)],
        LAMBDA items :
            [valid |-> Flatten([i \in DOMAIN items |-> items[i].valid], 1),
             invalid |-> Flatten([i \in DOMAIN items |-> items[i].invalid], 1),
             errors |-> Flatten([i \in DOMAIN items |-> items[i].errors], 1),
             questions |-> Flatten([i \in DOMAIN items |-> items[i].questions], 1)])

valid_types == {"general", "section", "component", "range", "subject_component"}

valid_applies_to == {"following_questions", "question_range", "all_questions"}

\* instruction drafts are these, each with or without the keys 'start_question'
\* and 'end_question'
InstructionFull ==
    [id : {"", "ins-1"}, title : {"", " ", "T"},
     type : {"", "general", "range", "paragraph"},
     applies_to : {"following_questions", "question_range", "next"},
     start_question : {1, 2}, end_question : {1, 2}]

\* QuestionValidator.validate_instruction: the list of errors
validate_instruction(instruction) ==
    (IF Get(instruction, "id", "") = ""
     THEN <<(<<"Instruction ID is required", 0>>)>> ELSE <<>>)
    \o (IF strip(Get(instruction, "title", "")) = ""
        THEN <<(<<"Instruction title is required", 0>>)>> ELSE <<>>)
    \o (IF Get(instruction, "type", "") = ""
        THEN <<(<<"Instruction type is required", 0>>)>> ELSE <<>>)
    \o (IF Get(instruction, "type", "") \notin valid_types
        THEN <<(<<"Instruction type must be one of the valid types", 0>>)>> ELSE <<>>)
    \o (IF Get(instruction, "applies_to", "") \notin valid_applies_to
        THEN <<(<<"Applies_to must be one of the valid values", 0>>)>> ELSE <<>>)
    \o (IF Get(instruction, "type", "") # "range" THEN <<>>
        ELSE IF "start_question" \notin DOMAIN instruction
                    \/ "end_question" \notin DOMAIN instruction
             THEN <<(<<"Range instructions must have start_question and end_question", 0>>)>>
        ELSE IF instruction.start_question > instruction.end_question
             THEN <<(<<"start_question must be <= end_question", 0>>)>>
        ELSE <<>>)

\* one iteration of the loop of _validate_instructions_batch on item i
validate_instruction_item(instruction, i) ==
    LET instruction_errors == validate_instruction(instruction) IN
    IF instruction_errors = <<>>
    THEN [valid |-> <<instruction>>, invalid |-> <<>>, errors |-> <<>>]
    ELSE [valid |-> <<>>,
          invalid |-> <<[instruction |-> instruction, errors |-> instruction_errors]>>,
          errors |-> <<[q_type |-> "instruction", i |-> i, note |-> "",
                        errors |-> instruction_errors]>>]

\* _validate_instructions_batch
validate_instructions_batch(instructions) ==
    Let([i \in 1..Len(instructions) |-> validate_instruction_item(instructions[i], i)],
        LAMBDA items :
            [valid |-> Flatten([i \in DOMAIN items |-> items[i].valid], 1),
             invalid |-> Flatten([i \in DOMAIN items |-> items[i].invalid], 1),
             errors |-> Flatten([i \in DOMAIN items |-> items[i].errors], 1)])

\* l[:n]
Take(l, n) == SubSeq(l, 1, IF Len(l) < n THEN Len(l) ELSE n)

\* variant of _generate_preview_with_instructions that cuts instructions at 3 too
generate_preview_three(mcq_questions, theory_questions, instructions) ==
    [mcq_preview |-> Take(mcq_questions, 3),
     theory_preview |-> Take(theory_questions, 3),
     instructions_preview |-> Take(instructions, 3),
     has_more_mcq |-> Len(mcq_questions) > 3,
     has_more_theory |-> Len(theory_questions) > 3,
     has_more_instructions |-> Len(instructions) > 3]

\* _generate_preview_with_instructions
generate_preview_with_instructions(mcq_questions, theory_questions, instructions) ==
    [mcq_preview |-> Take(mcq_questions, 3),
     theory_preview |-> Take(theory_questions, 3),
     instructions_preview |-> Take(instructions, 5),
     has_more_mcq |-> Len(mcq_questions) > 3,
     has_more_theory |-> Len(theory_questions) > 3,
     has_more_instructions |-> Len(instructions) > 5]

\* _process_parsed_questions
process_parsed_questions(parse_result, exam_id, validation_mode) ==
    LET mcq_questions == Get(parse_result, "mcq_questions", <<>>)
        theory_questions == Get(parse_result, "theory_questions", <<>>)
        instructions == Get(parse_result, "instructions", <<>>)
    IN Let(validate_instructions_batch(instructions), LAMBDA instruction_validation :
       Let(validate_questions_batch(mcq_questions, "mcq", validation_mode),
           LAMBDA mcq_validation :
       Let(validate_questions_batch(theory_questions, "theory", validation_mode),
           LAMBDA theory_validation :
       [statistics |->
            [total_parsed |-> Len(mcq_questions) + Len(theory_questions),
             mcq_parsed |-> Len(mcq_questions),
             theory_parsed |-> Len(theory_questions),
             mcq_valid |-> Len(mcq_validation.valid),
             theory_valid |-> Len(theory_validation.valid),
             mcq_invalid |-> Len(mcq_validation.invalid),
             theory_invalid |-> Len(theory_validation.invalid),
             total_valid |-> Len(mcq_validation.valid) + Len(theory_validation.valid),
             total_invalid |-> Len(mcq_validation.invalid) + Len(theory_validation.invalid),
             instructions_parsed |-> Len(instructions),
             instructions_valid |-> Len(instruction_validation.valid),
             instructions_invalid |-> Len(instruction_validation.invalid)],
        valid_questions |-> [mcq |-> mcq_validation.valid,
                             theory |-> theory_validation.valid],
        invalid_questions |-> [mcq |-> mcq_validation.invalid,
                               theory |-> theory_validation.invalid],
        valid_instructions |-> instruction_validation.valid,
        invalid_instructions |-> instruction_validation.invalid,
        errors |-> mcq_validation.errors \o theory_validation.errors
                        \o instruction_validation.errors,
        warnings |-> Get(parse_result, "warnings", <<>>),
        preview |-> generate_preview_with_instructions(mcq_validation.valid,
                                                       theory_validation.valid,
                                                       instruction_validation.valid)])))

\* the lists of parse_result as they are after _process_parsed_questions
parse_result_after(parse_result, validation_mode) ==
    SetFields(parse_result,
        [mcq_questions |->
            validate_questions_batch(Get(parse_result, "mcq_questions", <<>>),
                                     "mcq", validation_mode).questions,
         theory_questions |->
            validate_questions_batch(Get(parse_result, "theory_questions", <<>>),
                                     "theory", validation_mode).questions])

\* the success response of process_upload
upload_response(parse_result, exam_id, filename, validation_mode) ==
    SetFields([success |-> TRUE, exam_id |-> exam_id, filename |-> filename,
               format |-> Get(parse_result, "format", None)],
              process_parsed_questions(parse_result, exam_id, validation_mode))

\* a parse result as the parsers return it
ParseResult(mcq_questions, theory_questions, instructions) ==
    [mcq_questions |-> mcq_questions, theory_questions |-> theory_questions,
     instructions |-> instructions, format |-> "docx", warnings |-> <<>>]

\* the record d without the fields of missing
Without(d, missing) == [f \in (DOMAIN d) \ missing |-> d[f]]

\* process_upload from _process_parsed_questions on, for one parse result; one
\* request per behaviour
ProcessParsed(parse_result, validation_mode) ==
    /\ processing' =
            [parse_result |-> parse_result,
             validation_mode |-> validation_mode,
             after |-> parse_result_after(parse_result, validation_mode),
             result |-> upload_response(parse_result, "exam", "paper.docx",
                                        validation_mode)]
    /\ UNCHANGED <<store, call, calls, upload, parsing>>

\* a parse result holding one draft of any shape is processed
ProcessSingle ==
    /\ processing = Empty
    /\ \E validation_mode \in ValidationModes :
        \/ \E d \in McqFull, missing \in SUBSET {"options", "correct_option", "marks"} :
             \E parse_result \in {ParseResult(<<Without(d, missing)>>, <<>>, <<>>)} :
                ProcessParsed(parse_result, validation_mode)
        \/ \E d \in TheoryFull, missing \in SUBSET {"sub_questions", "marks"} :
             \E parse_result \in {ParseResult(<<>>, <<Without(d, missing)>>, <<>>)} :
                ProcessParsed(parse_result, validation_mode)
        \/ \E d \in InstructionFull, missing \in SUBSET {"start_question", "end_question"} :
             \E parse_result \in {ParseResult(<<>>, <<>>, <<Without(d, missing)>>)} :
                ProcessParsed(parse_result, validation_mode)

MaxPreviewBatch == 6    \* drafts and instructions of one long parse result

McqKinds == {"valid", "repairable", "unrepairable", "raising"}

\* the k-th MCQ draft of a long parse result
McqDraft(kind, k) ==
    CASE kind = "valid" ->
            [question_text |-> "Q", options |-> <<"A", "Option 2">>,
             correct_option |-> PyInt(1), marks |-> PyInt(2), instruction_id |-> None,
             question_number |-> k]
      [] kind = "repairable" ->
            [question_text |-> "Q", options |-> <<"A">>, marks |-> PyInt(2),
             instruction_id |-> None, question_number |-> k]
      [] kind = "unrepairable" ->
            [question_text |-> "", options |-> <<"A">>, marks |-> PyInt(2),
             instruction_id |-> None, question_number |-> k]
      [] OTHER ->
            [question_text |-> "Q", options |-> <<"A", "Option 2">>,
             correct_option |-> PyInt(0), marks |-> None, instruction_id |-> None,
             question_number |-> k]

TheoryKinds == {"valid", "repairable", "unrepairable"}

\* the k-th Theory draft of a long parse result
TheoryDraft(kind, k) ==
    CASE kind = "valid" ->
            [question_text |-> "Q",
             sub_questions |-> <<[sub_number |-> "a", sub_text |-> "T", sub_marks |-> 3]>>,
             marks |-> 3, instruction_id |-> None, question_number |-> k]
      [] kind = "repairable" ->
            [question_text |-> "Q", sub_questions |-> <<>>, marks |-> 5,
             instruction_id |-> None, question_number |-> k]
      [] OTHER ->
            [question_text |-> "Q",
             sub_questions |-> <<[sub_number |-> "a", sub_text |-> "T", sub_marks |-> 0]>>,
             marks |-> 0, instruction_id |-> None, question_number |-> k]

InstructionKinds == {"valid", "invalid"}

\* str(uuid.uuid4()): the k-th identifier generated for a document
uuid4(k) == <<"ins-1", "ins-2", "ins-3", "ins-4", "ins-5", "ins-6", "ins-7", "ins-8">>[k]

\* the k-th instruction of a long parse result
InstructionDraft(kind, k) ==
    [id |-> uuid4(k), title |-> IF kind = "valid" THEN "T" ELSE "",
     type |-> "general", applies_to |-> "following_questions", order |-> k - 1]

\* a parse result of up to MaxPreviewBatch items, each of one of the kinds above,
\* is processed
ProcessLong ==
    /\ processing = Empty
    /\ \E validation_mode \in ValidationModes,
          s \in (0..MaxPreviewBatch) \X (0..MaxPreviewBatch) \X (0..MaxPreviewBatch) :
        /\ s[1] + s[2] + s[3] <= MaxPreviewBatch
        /\ \E m \in [1..s[1] -> McqKinds], t \in [1..s[2] -> TheoryKinds],
              n \in [1..s[3] -> InstructionKinds] :
             \E parse_result \in
                    {ParseResult([k \in 1..s[1] |-> McqDraft(m[k], k)],
                                 [k \in 1..s[2] |-> TheoryDraft(t[k], k)],
                                 [k \in 1..s[3] |-> InstructionDraft(n[k], k)])} :
                ProcessParsed(parse_result, validation_mode)

-----------------------------------------------------------------------------
(* The Line-Classification Parser: DocumentParser._extract_questions_from_docx *)
(* over a stream of blocks, each block with what the pattern detectors say     *)
(* about it                                                                    *)

MaxBlocks == 4          \* blocks of a document
MaxRange == 2           \* greatest question number a range instruction names

\* what _detect_instruction_pattern returns for a header of a type
InstructionMatch(type) ==
    [type |-> type, title |-> "T", instruction_text |-> "",
     applies_to |-> "following_questions"]

\* what _detect_instruction_pattern returns for 'For Questions s-e: ..'
RangeMatch(s, e) ==
    [type |-> "range", title |-> "Questions", instruction_text |-> "",
     applies_to |-> "question_range", start_question |-> s, end_question |-> e]

\* a block: the results of the detectors on its text. header is <<>> (None) or
\* <<the instruction match>>; type is what _detect_question_type returns for
\* the requested question type; marks is what _extract_marks returns; text is
\* the cleaned text. The text of a question, an option or a sub-question is the
\* sequence of the texts of the blocks it was made of
PlainBlock ==
    [header |-> <<>>, standalone |-> FALSE, question |-> FALSE, type |-> "theory",
     marks |-> 1, option |-> FALSE, correct |-> FALSE, sub_question |-> FALSE,
     sub_number |-> "a", text |-> "text"]

HeaderBlock(match) == [PlainBlock EXCEPT !.header = <<match>>, !.text = "header"]

QuestionBlock(type, marks) ==
    [PlainBlock EXCEPT !.question = TRUE, !.type = type, !.marks = marks, !.text = "stem"]

OptionBlock(correct) ==
    [PlainBlock EXCEPT !.option = TRUE, !.correct = correct, !.text = "option"]

\* the dict current_instruction built for a header match
new_instruction(match, full_text, order) ==
    [id |-> uuid4(order + 1),
     type |-> match.type,
     title |-> match.title,
     instruction_text |-> Get(match, "instruction_text", ""),
     full_text |-> full_text,
     applies_to |-> match.applies_to,
     start_question |-> Get(match, "start_question", None),
     end_question |-> Get(match, "end_question", None),
     order |-> order]

\* the dict current_instruction built for a standalone instruction
standalone_instruction(text, order) ==
    [id |-> uuid4(order + 1), type |-> "general", title |-> "Instructions",
     instruction_text |-> text, full_text |-> text,
     applies_to |-> "following_questions", order |-> order]

\* the locals of _extract_questions_from_docx before the first paragraph;
\* current_question and current_instruction are <<>> (None) or <<the dict>>
StartParse ==
    [pc |-> "scan", blocks |-> <<>>,
     mcq_questions |-> <<>>, theory_questions |-> <<>>, instructions |-> <<>>,
     current_question |-> <<>>, current_type |-> "none",
     current_instruction |-> <<>>, question_counter |-> 0]

\* _save_question that stores the place of the draft in its list as its number
save_question_renumbering(st, question, q_type) ==
    IF q_type = "mcq"
    THEN IF Len(question.options) < 2 THEN st
         ELSE [st EXCEPT !.mcq_questions = Append(@,
                [question_text |-> question.question_text, question_type |-> "mcq",
                 options |-> question.options,
                 correct_option |-> Get(question, "correct_option", 0),
                 marks |-> question.marks, instruction_id |-> question.instruction_id,
                 question_number |-> Len(st.mcq_questions) + 1])]
    ELSE LET sub_questions ==
                IF question.sub_questions = <<>>
                THEN <<[sub_number |-> "a", sub_text |-> question.question_text,
                        sub_marks |-> question.marks]>>
                ELSE question.sub_questions
         IN [st EXCEPT !.theory_questions = Append(@,
                [question_text |-> IF question.sub_questions = <<>> THEN <<>>
                                   ELSE question.question_text,
                 question_type |-> "theory",
                 sub_questions |-> sub_questions,
                 marks |-> sum_sub_marks(sub_questions, 0, 1),
                 instruction_id |-> question.instruction_id,
                 question_number |-> Len(st.theory_questions) + 1])]

\* _save_question without the check of the number of options
save_question_any(st, question, q_type) ==
    IF q_type = "mcq"
    THEN [st EXCEPT !.mcq_questions = Append(@,
            [question_text |-> question.question_text, question_type |-> "mcq",
             options |-> question.options,
             correct_option |-> Get(question, "correct_option", 0),
             marks |-> question.marks, instruction_id |-> question.instruction_id,
             question_number |-> question.question_number])]
    ELSE LET sub_questions ==
                IF question.sub_questions = <<>>
                THEN <<[sub_number |-> "a", sub_text |-> question.question_text,
                        sub_marks |-> question.marks]>>
                ELSE question.sub_questions
         IN [st EXCEPT !.theory_questions = Append(@,
                [question_text |-> IF question.sub_questions = <<>> THEN <<>>
                                   ELSE question.question_text,
                 question_type |-> "theory",
                 sub_questions |-> sub_questions,
                 marks |-> sum_sub_marks(sub_questions, 0, 1),
                 instruction_id |-> question.instruction_id,
                 question_number |-> question.question_number])]

\* _save_question: the parser's locals st after the unit is saved as q_type
save_question(st, question, q_type) ==
    IF q_type = "mcq"
    THEN IF Len(question.options) < 2 THEN st
         ELSE [st EXCEPT !.mcq_questions = Append(@,
                [question_text |-> question.question_text, question_type |-> "mcq",
                 options |-> question.options,
                 correct_option |-> Get(question, "correct_option", 0),
                 marks |-> question.marks, instruction_id |-> question.instruction_id,
                 question_number |-> question.question_number])]
    ELSE LET sub_questions ==
                IF question.sub_questions = <<>>
                THEN <<[sub_number |-> "a", sub_text |-> question.question_text,
                        sub_marks |-> question.marks]>>
                ELSE question.sub_questions
         IN [st EXCEPT !.theory_questions = Append(@,
                [question_text |-> IF question.sub_questions = <<>> THEN <<>>
                                   ELSE question.question_text,
                 question_type |-> "theory",
                 sub_questions |-> sub_questions,
                 marks |-> sum_sub_marks(sub_questions, 0, 1),
                 instruction_id |-> question.instruction_id,
                 question_number |-> question.question_number])]

\* `if current_question: if current_instruction: ..; self._save_question(..)`
close_question(st) ==
    IF st.current_question = <<>> THEN st
    ELSE LET question ==
                IF st.current_instruction = <<>> THEN st.current_question[1]
                ELSE [st.current_question[1] EXCEPT
                        !.instruction_id = PyStr(st.current_instruction[1].id)]
         IN save_question(st, question, st.current_type)

\* one iteration of the loop over the paragraphs, on block b
read_block(st, b) ==
    LET read == [st EXCEPT !.blocks = Append(@, b)]
        current == st.current_question[1]
    IN
    IF b.header # <<>>
    THEN LET instruction == new_instruction(b.header[1], b.text, Len(st.instructions))
         IN [close_question(read) EXCEPT !.current_question = <<>>,
                                          !.current_instruction = <<instruction>>,
                                          !.instructions = Append(@, instruction)]
    ELSE IF b.standalone /\ st.current_question = <<>>
    THEN LET instruction == standalone_instruction(b.text, Len(st.instructions))
         IN [read EXCEPT !.current_instruction = <<instruction>>,
                         !.instructions = Append(@, instruction)]
    ELSE IF b.question
    THEN [close_question(read) EXCEPT
            !.question_counter = st.question_counter + 1,
            !.current_question =
                <<[question_text |-> <<b.text>>, options |-> <<>>, sub_questions |-> <<>>,
                   marks |-> b.marks, images |-> <<>>,
                   question_number |-> st.question_counter + 1,
                   instruction_id |-> IF st.current_instruction = <<>> THEN None
                                      ELSE PyStr(st.current_instruction[1].id)]>>,
            !.current_type = b.type]
    ELSE IF st.current_question # <<>>
    THEN IF b.option /\ st.current_type = "mcq"
         THEN [read EXCEPT !.current_question =
                <<IF b.correct
                  THEN SetFields(current,
                            [options |-> Append(current.options, <<b.text>>),
                             correct_option |-> Len(current.options)])
                  ELSE [current EXCEPT !.options = Append(@, <<b.text>>)]>>]
         ELSE IF b.sub_question /\ st.current_type = "theory"
         THEN [read EXCEPT !.current_question =
                <<[current EXCEPT !.sub_questions = Append(@,
                        [sub_number |-> b.sub_number, sub_text |-> <<b.text>>,
                         sub_marks |-> b.marks])]>>]
         ELSE [read EXCEPT !.current_question =
                <<[current EXCEPT !.question_text = Append(@, b.text)]>>]
    ELSE read

\* variant of assign_range that overwrites an instruction id already set
assign_range_overwriting(instruction, all_questions) ==
    [k \in DOMAIN all_questions |->
        IF instruction.start_question <= all_questions[k].question_number
                /\ all_questions[k].question_number <= instruction.end_question
        THEN [all_questions[k] EXCEPT !.instruction_id = PyStr(instruction.id)]
        ELSE all_questions[k]]

\* the inner loop of _process_instruction_ranges for one range instruction
assign_range(instruction, all_questions) ==
    [k \in DOMAIN all_questions |->
        IF instruction.start_question <= all_questions[k].question_number
                /\ all_questions[k].question_number <= instruction.end_question
                /\ all_questions[k].instruction_id = None
        THEN [all_questions[k] EXCEPT !.instruction_id = PyStr(instruction.id)]
        ELSE all_questions[k]]

RECURSIVE process_instruction_ranges(_, _, _)
\* _process_instruction_ranges from instruction i on: all_questions after it
process_instruction_ranges(instructions, all_questions, i) ==
    IF i > Len(instructions) THEN all_questions
    ELSE process_instruction_ranges(
            instructions,
            IF instructions[i].applies_to = "question_range"
            THEN assign_range(instructions[i], all_questions)
            ELSE all_questions,
            i + 1)

\* the blocks of the documents of the scoping model
ScopeBlocks ==
    {HeaderBlock(InstructionMatch("general")), HeaderBlock(InstructionMatch("section"))}
    \cup {HeaderBlock(RangeMatch(r[1], r[2])) :
                r \in {z \in (1..MaxRange) \X (1..MaxRange) : z[1] <= z[2]}}
    \cup {QuestionBlock("theory", 1), QuestionBlock("mcq", 1), OptionBlock(FALSE)}

\* variant of the loop that takes a heuristic instruction for an instruction
\* wherever it stands
ReadBlock_standalone_anywhere(alphabet) ==
    /\ parsing.pc = "scan"
    /\ Len(parsing.blocks) < MaxBlocks
    /\ \E b \in alphabet :
          parsing' =
            IF b.header = <<>> /\ b.standalone
            THEN LET instruction == standalone_instruction(b.text, Len(parsing.instructions))
                 IN [close_question(parsing) EXCEPT
                        !.blocks = Append(@, b),
                        !.current_question = <<>>,
                        !.current_instruction = <<instruction>>,
                        !.instructions = Append(@, instruction)]
            ELSE read_block(parsing, b)
    /\ UNCHANGED <<store, call, calls, upload, processing>>

\* the next paragraph of the document is read
ReadBlock(alphabet) ==
    /\ parsing.pc = "scan"
    /\ Len(parsing.blocks) < MaxBlocks
    /\ \E b \in alphabet : parsing' = read_block(parsing, b)
    /\ UNCHANGED <<store, call, calls, upload, processing>>

\* after the last paragraph: the open question is saved
EndOfStream ==
    /\ parsing.pc = "scan"
    /\ parsing' = [close_question(parsing) EXCEPT !.pc = "ranges"]
    /\ UNCHANGED <<store, call, calls, upload, processing>>

\* self._process_instruction_ranges(instructions, mcq_questions + theory_questions):
\* the dicts of both lists are the ones the pass assigns to
ProcessRanges ==
    /\ parsing.pc = "ranges"
    /\ LET all_questions ==
              process_instruction_ranges(parsing.instructions,
                    parsing.mcq_questions \o parsing.theory_questions, 1)
       IN parsing' =
            [parsing EXCEPT
                !.pc = "done",
                !.mcq_questions = SubSeq(all_questions, 1, Len(parsing.mcq_questions)),
                !.theory_questions = SubSeq(all_questions, Len(parsing.mcq_questions) + 1,
                                            Len(all_questions))]
    /\ UNCHANGED <<store, call, calls, upload, processing>>

-----------------------------------------------------------------------------
(* Texts of the Snapshot Parser. A text is the sequence of its characters,   *)
(* so that the regular expressions of the parser are computed on it.         *)

MaxSnapshotOptions == 4

UpperCase ==
    <<"A", "B", "C", "D", "E", "F", "G", "H", "I", "J", "K", "L", "M",
      "N", "O", "P", "Q", "R", "S", "T", "U", "V", "W", "X", "Y", "Z">>

LowerCase ==
    <<"a", "b", "c", "d", "e", "f", "g", "h", "i", "j", "k", "l", "m",
      "n", "o", "p", "q", "r", "s", "t", "u", "v", "w", "x", "y", "z">>

Digits == <<"0", "1", "2", "3", "4", "5", "6", "7", "8", "9">>

CharsOf(seq) == {seq[i] : i \in DOMAIN seq}

\* str.index
IndexOf(seq, c) == CHOOSE i \in DOMAIN seq : seq[i] = c

\* str.lower, one character
lower_char(c) == IF c \in CharsOf(UpperCase) THEN LowerCase[IndexOf(UpperCase, c)] ELSE c

\* str.lower
lower(s) == [i \in DOMAIN s |-> lower_char(s[i])]

\* \s of a regular expression: a blank is the only white space of the texts
Spaces == {" "}

\* \d
DigitChars == CharsOf(Digits)

\* \w
WordChars == CharsOf(UpperCase) \cup CharsOf(LowerCase) \cup DigitChars \cup {"_"}

\* end of a greedy S* that starts at i: the first position from i on that is
\* past the text or holds a character outside S
skip(s, i, S) ==
    IF i > Len(s) THEN i
    ELSE CHOOSE j \in i..(Len(s) + 1) :
            /\ \A k \in i..(j - 1) : s[k] \in S
            /\ (j = Len(s) + 1 \/ s[j] \notin S)

\* text[i:]
From(s, i) == SubSeq(s, i, Len(s))

\* str.strip
strip_chars(s) ==
    IF \A i \in DOMAIN s : s[i] \in Spaces THEN <<>>
    ELSE SubSeq(s, skip(s, 1, Spaces),
                CHOOSE j \in DOMAIN s :
                    s[j] \notin Spaces /\ \A k \in (j + 1)..Len(s) : s[k] \in Spaces)

\* the literal word stands at position i of s
at(s, i, word) ==
    /\ i + Len(word) - 1 <= Len(s)
    /\ SubSeq(s, i, i + Len(word) - 1) = word

\* a marker is a literal, matched without regard to case, between word
\* boundaries (\b) when bounded
Marker(word, bounded) == [word |-> word, bounded |-> bounded]

marker_at(s, i, m) ==
    /\ i + Len(m.word) - 1 <= Len(s)
    /\ \A k \in DOMAIN m.word : lower_char(s[i + k - 1]) = m.word[k]
    /\ m.bounded =>
          /\ (i = 1 \/ s[i - 1] \notin WordChars)
          /\ (i + Len(m.word) > Len(s) \/ s[i + Len(m.word)] \notin WordChars)

\* re.search(marker, s, re.IGNORECASE): the position of the first match, 0 for None
search(s, m) ==
    IF \E i \in DOMAIN s : marker_at(s, i, m)
    THEN CHOOSE i \in DOMAIN s :
            marker_at(s, i, m) /\ \A k \in 1..(i - 1) : ~marker_at(s, k, m)
    ELSE 0

\* re.sub(marker, '', s, flags=re.IGNORECASE)
RECURSIVE remove_marker(_, _)
remove_marker(s, m) ==
    Let(search(s, m), LAMBDA p :
        IF p = 0 THEN s
        ELSE SubSeq(s, 1, p - 1) \o remove_marker(From(s, p + Len(m.word)), m))

\* re.sub(r'<[^>]*>', '', s)
RECURSIVE remove_tags(_)
remove_tags(s) ==
    IF \E i \in DOMAIN s : s[i] = "<" /\ \E j \in (i + 1)..Len(s) : s[j] = ">"
    THEN LET i == CHOOSE i \in DOMAIN s :
                     /\ s[i] = "<" /\ \E j \in (i + 1)..Len(s) : s[j] = ">"
                     /\ \A k \in 1..(i - 1) : s[k] # "<"
             j == skip(s, i + 1, CharsOf(s) \ {">"})
         IN  SubSeq(s, 1, i - 1) \o remove_tags(From(s, j + 1))
    ELSE s

W_correct == <<"c", "o", "r", "r", "e", "c", "t">>

W_answer == <<"a", "n", "s", "w", "e", "r">>

\* the characters U+2713, U+2714 and U+2192, one character each
CheckMark == "U+2713"

HeavyCheckMark == "U+2714"

Arrow == "U+2192"

\* self.correct_markers
correct_markers ==
    << Marker(<<"(">> \o W_correct \o <<")">>, FALSE),
       Marker(<<"[">> \o W_correct \o <<"]">>, FALSE),
       Marker(<<"*">> \o W_correct \o <<"*">>, FALSE),
       Marker(W_correct, TRUE),
       Marker(<<CheckMark>>, FALSE),
       Marker(<<HeavyCheckMark>>, FALSE),
       Marker(<<Arrow>>, FALSE),
       Marker(<<"(">> \o W_answer \o <<")">>, FALSE),
       Marker(<<"[">> \o W_answer \o <<"]">>, FALSE) >>

\* markers of strip_html in _normalize_final_question
dedup_markers ==
    << Marker(<<"(">> \o W_correct \o <<")">>, FALSE),
       Marker(<<"[">> \o W_correct \o <<"]">>, FALSE),
       Marker(<<"*">> \o W_correct \o <<"*">>, FALSE),
       Marker(<<CheckMark>>, FALSE),
       Marker(<<HeavyCheckMark>>, FALSE),
       Marker(<<Arrow>>, FALSE),
       Marker(<<"(">> \o W_answer \o <<")">>, FALSE),
       Marker(<<"[">> \o W_answer \o <<"]">>, FALSE) >>

\* for m in markers: base = re.sub(m, '', base, flags=re.IGNORECASE).strip()
RECURSIVE strip_markers(_, _, _)
strip_markers(base, markers, i) ==
    IF i > Len(markers) THEN base
    ELSE strip_markers(strip_chars(remove_marker(base, markers[i])), markers, i + 1)

\* strip_html of _normalize_final_question
strip_html(s) == strip_markers(strip_chars(remove_tags(s)), dedup_markers, 1)

\* the loop of _normalize_final_question over enumerate(options): seen holds the
\* keys in the order of new_options (seen[key] is the place of key), kept the
\* old index of each new option (old_index_to_new)
RECURSIVE dedup_options(_, _, _)
dedup_options(options, idx, acc) ==
    IF idx >= Len(options) THEN acc
    ELSE Let(strip_html(options[idx + 1]), LAMBDA text_clean :
            IF \/ text_clean = <<>>
               \/ \E k \in DOMAIN acc.seen : acc.seen[k] = lower(text_clean)
            THEN dedup_options(options, idx + 1, acc)
            ELSE dedup_options(options, idx + 1,
                     [seen |-> Append(acc.seen, lower(text_clean)),
                      kept |-> Append(acc.kept, idx)]))

\* variant of the loop that drops only the empty options
RECURSIVE dedup_options_keeping(_, _, _)
dedup_options_keeping(options, idx, acc) ==
    IF idx >= Len(options) THEN acc
    ELSE Let(strip_html(options[idx + 1]), LAMBDA text_clean :
            IF text_clean = <<>>
            THEN dedup_options_keeping(options, idx + 1, acc)
            ELSE dedup_options_keeping(options, idx + 1,
                     [seen |-> Append(acc.seen, lower(text_clean)),
                      kept |-> Append(acc.kept, idx)]))

\* while len(option_images) < len(options): option_images.append(None)
pad_images(option_images, options) ==
    [i \in 1..Max(Len(option_images), Len(options)) |->
        IF i <= Len(option_images) THEN option_images[i] ELSE None]

\* variant of the remap that only goes through old_index_to_new
remap_correct_by_index(options, old_correct, acc) ==
    IF \E k \in DOMAIN acc.kept : acc.kept[k] = old_correct
    THEN (CHOOSE k \in DOMAIN acc.kept : acc.kept[k] = old_correct) - 1
    ELSE 0

\* the remap of correct_option: through old_index_to_new, else by the text of the
\* old correct option, else 0
remap_correct(options, old_correct, acc) ==
    IF \E k \in DOMAIN acc.kept : acc.kept[k] = old_correct
    THEN (CHOOSE k \in DOMAIN acc.kept : acc.kept[k] = old_correct) - 1
    ELSE IF old_correct < Len(options) /\ strip_html(options[old_correct + 1]) # <<>>
         THEN (CHOOSE k \in DOMAIN acc.seen :
                   acc.seen[k] = lower(strip_html(options[old_correct + 1]))) - 1
         ELSE 0

\* what _normalize_final_question makes of the question once the loop has run
normalized(question, acc) ==
    IF question.options = <<>> THEN question
    ELSE IF acc.kept = <<>>
         THEN \* the list of the question was padded in place, 'or []' made a new
              \* list of an empty one
              IF question.option_images = <<>> THEN question
              ELSE [question EXCEPT
                       !.option_images = pad_images(question.option_images, question.options)]
         ELSE [question EXCEPT
                  !.correct_option = remap_correct(question.options, question.correct_option, acc),
                  !.options = [k \in DOMAIN acc.kept |-> question.options[acc.kept[k] + 1]],
                  !.option_images =
                      [k \in DOMAIN acc.kept |->
                          pad_images(question.option_images, question.options)[acc.kept[k] + 1]]]

\* variant of _normalize_final_question that keeps repeated options
normalize_final_question_keeping(question) ==
    Let(dedup_options_keeping(question.options, 0, [seen |-> <<>>, kept |-> <<>>]),
        LAMBDA acc : normalized(question, acc))

\* SnapshotParser._normalize_final_question: the question after the call
normalize_final_question(question) ==
    Let(dedup_options(question.options, 0, [seen |-> <<>>, kept |-> <<>>]),
        LAMBDA acc : normalized(question, acc))

\* option texts of the questions handed to the normalization
Opt_4_correct == <<"4", " ", "(">> \o W_correct \o <<")">>

Opt_Four == <<"F", "o", "u", "r">>

Opt_Six == <<"S", "i", "x">>

Opt_Tagged_4 == <<"<", "b", ">", "4", "<", "/", "b", ">">>

Opt_Correct == <<"(", "C">> \o From(W_correct, 2) \o <<")">>

SnapshotOptionTexts == {Opt_4_correct, Opt_Four, Opt_Six, Opt_Tagged_4, Opt_Correct}

\* option_images of a question with these options: none yet, one null per
\* option, or an image for the first option
OptionImages(options) ==
    {<<>>, [i \in DOMAIN options |-> None],
     [i \in DOMAIN options |-> IF i = 1 THEN PyStr("image") ELSE None]}

\* a question dict of _parse_snapshot_structure, the fields the normalization reads
SnapshotQuestion(options, option_images, correct_option) ==
    [options |-> options, option_images |-> option_images, correct_option |-> correct_option]

\* one call of _normalize_final_question
NormalizeFinalQuestion ==
    /\ parsing = Empty
    /\ \E options \in SeqsUpTo(SnapshotOptionTexts, MaxSnapshotOptions) :
         \E option_images \in OptionImages(options), correct_option \in 0..Len(options) :
           \E question \in {SnapshotQuestion(options, option_images, correct_option)} :
             parsing' = [pc |-> "normalized", question |-> question,
                         after |-> normalize_final_question(question)]
    /\ UNCHANGED <<store, call, calls, upload, processing>>

-----------------------------------------------------------------------------
(* The Snapshot Parser: SnapshotParser._parse_snapshot_structure over the    *)
(* paragraphs of a .docx, one paragraph a step                               *)

MaxParagraphs == 3

\* str.upper, one character
upper_char(c) == IF c \in CharsOf(LowerCase) THEN UpperCase[IndexOf(LowerCase, c)] ELSE c

\* int(match.group(1))
RECURSIVE to_int(_)
to_int(digits) ==
    IF digits = <<>> THEN 0
    ELSE 10 * to_int(SubSeq(digits, 1, Len(digits) - 1))
            + IndexOf(Digits, digits[Len(digits)]) - 1

\* re.match that failed
NoMatch == Empty

\* a match: group is match.group(1), end is match.end()
Match(group, end) == [group |-> group, end |-> end]

\* the first match of a list of pattern results, as 'for pattern in ...' finds it
first_match(matches) ==
    IF \A i \in DOMAIN matches : matches[i] = NoMatch THEN NoMatch
    ELSE matches[CHOOSE i \in DOMAIN matches :
                     matches[i] # NoMatch /\ \A k \in 1..(i - 1) : matches[k] = NoMatch]

\* [\.\)\:\-\s]
Enders == {".", ")", ":", "-"} \cup Spaces

\* r'^\s*(\d+)[\.\)\:\-\s]'
match_number(s) ==
    LET a == skip(s, 1, Spaces)
        b == skip(s, a, DigitChars)
    IN  IF b > a /\ b <= Len(s) /\ s[b] \in Enders
        THEN Match(SubSeq(s, a, b - 1), b)
        ELSE NoMatch

\* r'^\s*WORD\.?\s*(\d+)' without regard to case, with \s* before the \.? when
\* spaced and [\.\)\:\-\s]* at the end when trailing
match_word_number(s, word, spaced, trailing) ==
    LET a == skip(s, 1, Spaces)
        w == a + Len(word)
        p == IF spaced THEN skip(s, w, Spaces) ELSE w
        d == IF p <= Len(s) /\ s[p] = "." THEN p + 1 ELSE p
        c == skip(s, d, Spaces)
        b == skip(s, c, DigitChars)
    IN  IF at(lower(s), a, word) /\ b > c
        THEN Match(SubSeq(s, c, b - 1),
                   IF trailing THEN skip(s, b, Enders) - 1 ELSE b - 1)
        ELSE NoMatch

\* r'^\s*\((\d+)\)'
match_paren_number(s) ==
    LET a == skip(s, 1, Spaces)
        b == skip(s, a + 1, DigitChars)
    IN  IF a <= Len(s) /\ s[a] = "(" /\ b > a + 1 /\ b <= Len(s) /\ s[b] = ")"
        THEN Match(SubSeq(s, a + 1, b - 1), b)
        ELSE NoMatch

\* self.question_patterns, each matched against s
question_patterns(s) ==
    << match_number(s),
       match_word_number(s, <<"q">>, FALSE, TRUE),
       match_word_number(s, <<"q", "u", "e", "s", "t", "i", "o", "n">>, TRUE, FALSE),
       match_paren_number(s),
       match_word_number(s, <<"n", "o">>, FALSE, FALSE) >>

\* SnapshotParser._detect_question_number: NoMatch for None
detect_question_number(text) ==
    Let(first_match(question_patterns(text)), LAMBDA match :
        IF match = NoMatch THEN NoMatch
        ELSE [number |-> to_int(match.group),
              text_after |-> strip_chars(From(text, match.end + 1))])

\* [A-Ha-h]
OptionLetters == {UpperCase[i] : i \in 1..8} \cup {LowerCase[i] : i \in 1..8}

\* r'^\s*([A-Ha-h])[\.\)\:\-\s]'
match_letter(s) ==
    LET a == skip(s, 1, Spaces)
    IN  IF a + 1 <= Len(s) /\ s[a] \in OptionLetters /\ s[a + 1] \in Enders
        THEN Match(<<s[a]>>, a + 1)
        ELSE NoMatch

\* r'^\s*\(([A-Ha-h])\)'
match_paren_letter(s) ==
    LET a == skip(s, 1, Spaces)
    IN  IF a + 2 <= Len(s) /\ s[a] = "(" /\ s[a + 1] \in OptionLetters /\ s[a + 2] = ")"
        THEN Match(<<s[a + 1]>>, a + 2)
        ELSE NoMatch

\* r'^\s*([A-Ha-h])\s+'
match_letter_space(s) ==
    LET a == skip(s, 1, Spaces)
    IN  IF a + 1 <= Len(s) /\ s[a] \in OptionLetters /\ s[a + 1] \in Spaces
        THEN Match(<<s[a]>>, skip(s, a + 1, Spaces) - 1)
        ELSE NoMatch

\* self.option_patterns, each matched against s
option_patterns(s) == <<match_letter(s), match_paren_letter(s), match_letter_space(s)>>

\* SnapshotParser._detect_option_letter: NoMatch for None
detect_option_letter(text) ==
    Let(first_match(option_patterns(text)), LAMBDA match :
        IF match = NoMatch THEN NoMatch
        ELSE [letter |-> upper_char(match.group[1]),
              text_after |-> strip_chars(From(text, match.end + 1))])

\* SnapshotParser._is_marked_correct
is_marked_correct(text) ==
    \E i \in DOMAIN correct_markers : search(lower(text), correct_markers[i]) # 0

Br == <<"<", "b", "r", ">">>

SupOpen == <<"<", "s", "u", "p", ">">>

SupClose == <<"<", "/", "s", "u", "p", ">">>

StrongOpen == <<"<", "s", "t", "r", "o", "n", "g", ">">>

StrongClose == <<"<", "/", "s", "t", "r", "o", "n", "g", ">">>

\* [A-Za-z0-9]
AlnumChars == CharsOf(UpperCase) \cup CharsOf(LowerCase) \cup DigitChars

\* re.sub(r'([A-Za-z0-9\)\]])\^([A-Za-z0-9]+)', repl_caret, out)
RECURSIVE caret_exponents(_)
caret_exponents(out) ==
    LET caret(i) == /\ i + 2 <= Len(out)
                    /\ out[i] \in AlnumChars \cup {")", "]"}
                    /\ out[i + 1] = "^"
                    /\ out[i + 2] \in AlnumChars
    IN  IF \E i \in DOMAIN out : caret(i)
        THEN LET i == CHOOSE i \in DOMAIN out : caret(i) /\ \A k \in 1..(i - 1) : ~caret(k)
                 j == skip(out, i + 2, AlnumChars)
             IN  SubSeq(out, 1, i) \o SupOpen \o SubSeq(out, i + 2, j - 1) \o SupClose
                     \o caret_exponents(From(out, j))
        ELSE out

\* SnapshotParser._normalize_math_html. After the caret exponents no digit is
\* left in front of a '^', so the degree rule finds nothing; the stacked
\* fractions need a line of digits only between two <br>, and no paragraph of
\* Paragraphs below is one.
normalize_math_html(html) == caret_exponents(html)

\* a paragraph of the document: its text, in one run that is bold or not, and
\* the images of the run
Paragraph(text, bold, images) == [text |-> text, bold |-> bold, images |-> images]

\* _capture_paragraph_content(paragraph, image_map, initial_text): the runs give
\* the images only
capture_paragraph_content(paragraph, initial_text) ==
    [text |-> initial_text, images |-> paragraph.images]

\* _capture_paragraph_content(paragraph, image_map): the text is the HTML of the runs
capture_paragraph_runs(paragraph) ==
    [text |-> IF paragraph.text = <<>> THEN <<>>
              ELSE IF paragraph.bold THEN StrongOpen \o paragraph.text \o StrongClose
              ELSE paragraph.text,
     images |-> paragraph.images]

\* '<br>'.join(text_parts)
RECURSIVE join_br(_)
join_br(text_parts) ==
    IF text_parts = <<>> THEN <<>>
    ELSE IF Len(text_parts) = 1 THEN text_parts[1]
    ELSE text_parts[1] \o Br \o join_br(Tail(text_parts))

\* '<br>'.join(block['text'] for block in content_blocks if block['text']).strip()
combined_text(content_blocks) ==
    strip_chars(join_br(SelectSeq([k \in DOMAIN content_blocks |-> content_blocks[k].text],
                                  LAMBDA t : t # <<>>)))

\* all_images of the content blocks
all_images(content_blocks) ==
    Flatten([k \in DOMAIN content_blocks |-> content_blocks[k].images], 1)

\* SnapshotParser._finalize_question_content
finalize_question_content(question, content_blocks) ==
    LET question_text == normalize_math_html(combined_text(content_blocks))
    IN  IF all_images(content_blocks) = <<>>
        THEN [question EXCEPT !.question_text = question_text]
        ELSE [question EXCEPT
                 !.question_text = question_text,
                 !.question_image = PyStr(all_images(content_blocks)[1]),
                 !.has_rich_content = TRUE,
                 !.content_type = IF question_text # <<>> THEN "mixed" ELSE "image"]

\* for marker in self.correct_markers: option_text = re.sub(marker, '', option_text, ...)
RECURSIVE remove_markers(_, _, _)
remove_markers(option_text, markers, i) ==
    IF i > Len(markers) THEN option_text
    ELSE remove_markers(remove_marker(option_text, markers[i]), markers, i + 1)

\* while len(question['options']) <= option_index: append '' and None
pad_to(list, option_index, filler) ==
    [k \in 1..Max(Len(list), option_index + 1) |-> IF k <= Len(list) THEN list[k] ELSE filler]

\* SnapshotParser._finalize_option
finalize_option(question, content_blocks, option_index) ==
    LET option_text ==
            strip_chars(remove_markers(normalize_math_html(combined_text(content_blocks)),
                                       correct_markers, 1))
        options == [pad_to(question.options, option_index, <<>>)
                        EXCEPT ![option_index + 1] = option_text]
        option_images == pad_to(question.option_images, option_index, None)
    IN  IF all_images(content_blocks) = <<>>
        THEN [question EXCEPT !.options = options, !.option_images = option_images]
        ELSE [question EXCEPT
                 !.options = options,
                 !.option_images = [option_images EXCEPT ![option_index + 1] =
                                        PyStr(all_images(content_blocks)[1])],
                 !.has_rich_content = TRUE,
                 !.content_type = "mixed"]

\* the last option or the question content, as both _finalize_question and the
\* end of _parse_snapshot_structure close the open question
finalize_content(question, content_blocks, last_option_index) ==
    IF last_option_index # None
    THEN finalize_option(question, content_blocks, last_option_index.int)
    ELSE finalize_question_content(question, content_blocks)

\* the normalization works on the fields options, option_images, correct_option
normalize_fields(question) ==
    LET after == normalize_final_question(
                     SnapshotQuestion(question.options, question.option_images,
                                      question.correct_option))
    IN  [question EXCEPT !.options = after.options,
                         !.option_images = after.option_images,
                         !.correct_option = after.correct_option]

\* SnapshotParser._finalize_question
finalize_question(question, content_blocks, last_option_index) ==
    normalize_fields(finalize_content(question, content_blocks, last_option_index))

\* current_question of a new question
new_snapshot_question(question_number) ==
    [question_number |-> question_number, question_text |-> <<>>, question_image |-> None,
     options |-> <<>>, option_images |-> <<>>, correct_option |-> 0, marks |-> 1,
     content_type |-> "text", has_rich_content |-> FALSE]

\* the locals of _parse_snapshot_structure before the loop; current_question
\* is <<>> for None and <<question>> for a question
StartSnapshot(paragraphs) ==
    [pc |-> "snapshot", paragraphs |-> paragraphs, para_idx |-> 0,
     questions |-> <<>>, current_question |-> <<>>,
     current_option_index |-> None, current_content |-> <<>>]

\* a paragraph that starts a question
snapshot_question_start(st, paragraph, question_match) ==
    [st EXCEPT
        !.questions =
            IF st.current_question = <<>> THEN @
            ELSE Append(@, finalize_question(st.current_question[1], st.current_content,
                                             st.current_option_index)),
        !.current_question = <<new_snapshot_question(question_match.number)>>,
        !.current_content = <<capture_paragraph_content(paragraph, question_match.text_after)>>,
        !.current_option_index = None]

\* a paragraph that starts an option of the open question
snapshot_option_start(st, paragraph, text, option_match) ==
    LET closed == finalize_content(st.current_question[1], st.current_content,
                                   st.current_option_index)
        index == IndexOf(UpperCase, option_match.letter) - 1
    IN  [st EXCEPT
            !.current_question =
                <<IF is_marked_correct(text) \/ is_marked_correct(option_match.text_after)
                  THEN [closed EXCEPT !.correct_option = index]
                  ELSE closed>>,
            !.current_option_index = PyInt(index),
            !.current_content = <<capture_paragraph_content(paragraph, option_match.text_after)>>]

\* the body of the loop of _parse_snapshot_structure for one paragraph
snapshot_paragraph(st, paragraph) ==
    LET text == strip_chars(paragraph.text)
    IN  IF text = <<>> THEN st
        ELSE IF detect_question_number(text) # NoMatch
        THEN snapshot_question_start(st, paragraph, detect_question_number(text))
        ELSE IF st.current_question # <<>> /\ detect_option_letter(text) # NoMatch
        THEN snapshot_option_start(st, paragraph, text, detect_option_letter(text))
        ELSE IF st.current_question # <<>>
        THEN [st EXCEPT !.current_content = Append(@, capture_paragraph_runs(paragraph))]
        ELSE st

\* after the loop: the last question is closed, without the normalization, and
\* parse_docx_snapshot wraps the questions
snapshot_result(st) ==
    LET questions_ ==
            IF st.current_question = <<>> THEN st.questions
            ELSE Append(st.questions,
                        finalize_content(st.current_question[1], st.current_content,
                                         st.current_option_index))
    IN  [mcq_questions |-> questions_, theory_questions |-> <<>>,
         total_questions |-> Len(questions_), format |-> "docx_snapshot",
         warnings |-> <<>>]

Text_Q1 ==
    <<"1", ".", " ", "C", "a", "p", "i", "t", "a", "l", " ", "o", "f", " ",
      "F", "r", "a", "n", "c", "e", "?", " ", "[", "2", " ", "m", "a", "r",
      "k", "s", "]">>

Text_Q1_a == <<"a", ")", " ", "L", "o", "n", "d", "o", "n">>

Text_Q1_b == <<"b", ")", " ", "P", "a", "r", "i", "s", "*">>

Text_Q2 == <<"2", ")", " ", "2", "+", "2", " ", "1", "m">>

Text_Q2_a == <<"a", ".", " ", "T", "h", "r", "e", "e">>

Text_Q2_b ==
    <<"b", ".", " ", "F", "o", "u", "r", " ", "(", "c", "o", "r", "r", "e",
      "c", "t", ")">>

Text_Square == <<"x", "^", "2">>

\* the paragraphs of the 2-question document, its blank line included
TwoQuestionDocument ==
    << Paragraph(Text_Q1, FALSE, <<>>), Paragraph(Text_Q1_a, FALSE, <<>>),
       Paragraph(Text_Q1_b, FALSE, <<>>), Paragraph(<<>>, FALSE, <<>>),
       Paragraph(Text_Q2, FALSE, <<>>), Paragraph(Text_Q2_a, FALSE, <<>>),
       Paragraph(Text_Q2_b, FALSE, <<>>) >>

\* the paragraphs documents are made of: those of the 2-question document and
\* a bold line with an image
Paragraphs == CharsOf(TwoQuestionDocument) \cup {Paragraph(Text_Square, TRUE, <<"image">>)}

\* the documents parsed: the 2-question document and every short document
Documents == {TwoQuestionDocument} \cup SeqsUpTo(Paragraphs, MaxParagraphs)

\* enhanced_parse of a .docx whose container opens: parse_docx_snapshot starts
\* _parse_snapshot_structure; question_type is not passed on
ParseDocxSnapshot ==
    /\ parsing = Empty
    /\ \E paragraphs \in Documents, question_type \in QuestionTypes :
         parsing' = [question_type |-> question_type] @@ StartSnapshot(paragraphs)
    /\ UNCHANGED <<store, call, calls, upload, processing>>

\* for para_idx, paragraph in enumerate(doc.paragraphs)
SnapshotParagraph ==
    /\ parsing # Empty
    /\ parsing.pc = "snapshot"
    /\ parsing.para_idx < Len(parsing.paragraphs)
    /\ parsing' = [snapshot_paragraph(parsing, parsing.paragraphs[parsing.para_idx + 1])
                      EXCEPT !.para_idx = @ + 1]
    /\ UNCHANGED <<store, call, calls, upload, processing>>

\* the end of the loop: parse_docx_snapshot returns
SnapshotReturn ==
    /\ parsing # Empty
    /\ parsing.pc = "snapshot"
    /\ parsing.para_idx = Len(parsing.paragraphs)
    /\ parsing' = [pc |-> "returned", paragraphs |-> parsing.paragraphs,
                   question_type |-> parsing.question_type,
                   result |-> snapshot_result(parsing)]
    /\ UNCHANGED <<store, call, calls, upload, processing>>

-----------------------------------------------------------------------------
(* The Line-Classification Parser on streams of questions, options,          *)
(* sub-questions and continuation blocks, and its HTML path:                 *)
(* DocumentParser._extract_from_html_structure_with_instructions             *)

\* a block that _detect_sub_question_pattern matches
SubQuestionBlock(marks) ==
    [PlainBlock EXCEPT !.sub_question = TRUE, !.marks = marks, !.text = "part"]

\* the locals of _extract_from_html_structure_with_instructions before the
\* first element
StartHtmlParse == [StartParse EXCEPT !.pc = "scan_html"]

\* _save_html_question: the parser's locals st after the unit is saved
save_html_question(st, question) ==
    IF question.type = "mcq"
    THEN IF Len(question.options) < 2 THEN st
         ELSE [st EXCEPT !.mcq_questions = Append(@,
                [question_text |-> question.question_text, question_type |-> "mcq",
                 options |-> question.options,
                 correct_option |-> Get(question, "correct_option", 0),
                 marks |-> question.marks, instruction_id |-> question.instruction_id,
                 question_number |-> question.question_number])]
    ELSE [st EXCEPT !.theory_questions = Append(@,
            [question_text |-> question.question_text,
             question_type |-> "theory",
             sub_questions |->
                IF question.sub_questions = <<>>
                THEN <<[sub_number |-> "a", sub_text |-> question.question_text,
                        sub_marks |-> question.marks]>>
                ELSE question.sub_questions,
             marks |-> question.marks,
             instruction_id |-> question.instruction_id,
             question_number |-> question.question_number])]

\* `if current_question: if current_instruction: ..; self._save_html_question(..)`
close_html_question(st) ==
    IF st.current_question = <<>> THEN st
    ELSE save_html_question(st,
            IF st.current_instruction = <<>> THEN st.current_question[1]
            ELSE [st.current_question[1] EXCEPT
                    !.instruction_id = PyStr(st.current_instruction[1].id)])

\* one iteration of the loop over the elements, on block b
read_html_block(st, b) ==
    LET read == [st EXCEPT !.blocks = Append(@, b)]
        current == st.current_question[1]
    IN
    IF b.header # <<>>
    THEN LET instruction == new_instruction(b.header[1], b.text, Len(st.instructions))
         IN [close_html_question(read) EXCEPT !.current_question = <<>>,
                                               !.current_instruction = <<instruction>>,
                                               !.instructions = Append(@, instruction)]
    ELSE IF b.standalone /\ st.current_question = <<>>
    THEN LET instruction == standalone_instruction(b.text, Len(st.instructions))
         IN [read EXCEPT !.current_instruction = <<instruction>>,
                         !.instructions = Append(@, instruction)]
    ELSE IF b.question
    THEN [close_html_question(read) EXCEPT
            !.question_counter = st.question_counter + 1,
            !.current_question =
                <<[question_text |-> <<b.text>>, type |-> b.type,
                   options |-> <<>>, sub_questions |-> <<>>,
                   marks |-> b.marks,
                   question_number |-> st.question_counter + 1,
                   instruction_id |-> IF st.current_instruction = <<>> THEN None
                                      ELSE PyStr(st.current_instruction[1].id)]>>]
    ELSE IF st.current_question # <<>> /\ b.option /\ current.type = "mcq"
    THEN [read EXCEPT !.current_question =
            <<IF b.correct
              THEN SetFields(current,
                        [options |-> Append(current.options, <<b.text>>),
                         correct_option |-> Len(current.options)])
              ELSE [current EXCEPT !.options = Append(@, <<b.text>>)]>>]
    ELSE read

\* the blocks of the documents of questions, options, sub-questions and
\* continuation text
LineBlocks ==
    {QuestionBlock("mcq", 1), QuestionBlock("theory", 2),
     OptionBlock(FALSE), OptionBlock(TRUE), SubQuestionBlock(1), PlainBlock,
     HeaderBlock(InstructionMatch("general"))}

\* the next element of the HTML document is read
ReadHtmlBlock(alphabet) ==
    /\ parsing.pc = "scan_html"
    /\ Len(parsing.blocks) < MaxBlocks
    /\ \E b \in alphabet : parsing' = read_html_block(parsing, b)
    /\ UNCHANGED <<store, call, calls, upload, processing>>

\* after the last element: the open question is saved
EndOfHtmlStream ==
    /\ parsing.pc = "scan_html"
    /\ parsing' = [close_html_question(parsing) EXCEPT !.pc = "ranges_html"]
    /\ UNCHANGED <<store, call, calls, upload, processing>>

\* self._process_instruction_ranges(instructions, mcq_questions + theory_questions)
\* of the HTML path
ProcessHtmlRanges ==
    /\ parsing.pc = "ranges_html"
    /\ \E all_questions \in
            {process_instruction_ranges(parsing.instructions,
                    parsing.mcq_questions \o parsing.theory_questions, 1)} :
          parsing' =
            [parsing EXCEPT
                !.pc = "done_html",
                !.mcq_questions = SubSeq(all_questions, 1, Len(parsing.mcq_questions)),
                !.theory_questions = SubSeq(all_questions, Len(parsing.mcq_questions) + 1,
                                            Len(all_questions))]
    /\ UNCHANGED <<store, call, calls, upload, processing>>

-----------------------------------------------------------------------------
(* The pattern detectors of the Line-Classification Parser, computed on the  *)
(* characters of a text: DocumentParser._detect_question_pattern,            *)
(* _looks_like_mcq_option and _detect_option_pattern                         *)

\* [\.\)\,\:\-]
PunctChars == {".", ")", ",", ":", "-"}

\* [\.\)\,\:\-\s]
PunctSpace == PunctChars \cup Spaces

\* [A-Za-z]
Letters == CharsOf(UpperCase) \cup CharsOf(LowerCase)

\* [IVX] and [ivx] without regard to case
RomanChars == {"i", "v", "x", "I", "V", "X"}

\* [a-dA-D]
LettersAD == {"a", "b", "c", "d", "A", "B", "C", "D"}

\* [1-4]
Digits14 == {"1", "2", "3", "4"}

\* len(text.split())
word_count(s) ==
    Cardinality({i \in DOMAIN s : s[i] \notin Spaces /\ (i = 1 \/ s[i - 1] \in Spaces)})

\* word.lower() in text.lower()
contains(s, word) == \E i \in DOMAIN s : at(lower(s), i, word)

\* r'^[First][Next_]+'
starts_with(s, First, Next_) == Len(s) >= 2 /\ s[1] \in First /\ s[2] \in Next_

\* r'^[Run]+[Next_]+'
starts_with_run(s, Run, Next_) ==
    Let(skip(s, 1, Run), LAMBDA a : a > 1 /\ a <= Len(s) /\ s[a] \in Next_)

\* r'^\([Inner]\)'
starts_with_paren(s, Inner) ==
    Len(s) >= 3 /\ s[1] = "(" /\ s[2] \in Inner /\ s[3] = ")"

\* r'^\d+[\s]*[\.\)\,\:\-][\s]*[A-Za-z]'
number_punct_letter(s) ==
    Let(skip(s, skip(s, 1, DigitChars), Spaces), LAMBDA b :
        /\ skip(s, 1, DigitChars) > 1
        /\ b <= Len(s) /\ s[b] \in PunctChars
        /\ skip(s, b + 1, Spaces) <= Len(s)
        /\ s[skip(s, b + 1, Spaces)] \in Letters)

\* r'^\d+[\s]*[A-Za-z]' when some = FALSE, r'^\d+\s+[A-Z]' when some = TRUE
number_letter(s, some, Class) ==
    Let(skip(s, 1, DigitChars), LAMBDA a :
        /\ a > 1
        /\ some => skip(s, a, Spaces) > a
        /\ skip(s, a, Spaces) <= Len(s)
        /\ s[skip(s, a, Spaces)] \in Class)

\* r'^[a-dA-D][\s]*[\.\)\,\:\-][\s]*[A-Za-z]'
letter_punct_letter(s) ==
    /\ s # <<>> /\ s[1] \in LettersAD
    /\ Let(skip(s, 2, Spaces), LAMBDA b :
        /\ b <= Len(s) /\ s[b] \in PunctChars
        /\ skip(s, b + 1, Spaces) <= Len(s)
        /\ s[skip(s, b + 1, Spaces)] \in Letters)

\* the patterns of _detect_question_pattern, each matched against s without
\* regard to case
line_question_patterns(s) ==
    << starts_with_run(s, DigitChars, PunctSpace),
       match_word_number(s, <<"q">>, FALSE, TRUE) # NoMatch,
       match_word_number(s, <<"q", "u", "e", "s", "t", "i", "o", "n">>, TRUE, TRUE) # NoMatch,
       match_paren_number(s) # NoMatch,
       match_word_number(s, <<"q", "u", "e", "s", "t", "i", "o", "n">>, TRUE, TRUE) # NoMatch,
       number_punct_letter(s),
       match_word_number(s, <<"n", "o">>, FALSE, TRUE) # NoMatch,
       number_letter(s, FALSE, Letters),
       starts_with_run(s, RomanChars, PunctSpace) >>

\* option_words of _looks_like_mcq_option
option_words ==
    { <<"o", "p", "t", "i", "o", "n">>, <<"c", "h", "o", "i", "c", "e">>,
      <<"a", "n", "s", "w", "e", "r">>, <<"c", "o", "r", "r", "e", "c", "t">>,
      <<"w", "r", "o", "n", "g">>, <<"f", "a", "l", "s", "e">>,
      <<"t", "r", "u", "e">> }

\* DocumentParser._looks_like_mcq_option
looks_like_mcq_option(text) ==
    \/ /\ starts_with(text, LettersAD, PunctSpace)
       /\ \/ word_count(text) <= 5
          \/ \E word \in option_words : contains(text, word)
    \/ /\ starts_with(text, Digits14, PunctSpace)
       /\ word_count(text) <= 5

\* DocumentParser._detect_question_pattern
detect_question_pattern(text) ==
    Let(strip_chars(text), LAMBDA text_clean :
        IF looks_like_mcq_option(text_clean) THEN FALSE
        ELSE \/ \E i \in DOMAIN line_question_patterns(text_clean) :
                    line_question_patterns(text_clean)[i]
             \/ /\ word_count(text_clean) > 2
                /\ number_letter(text_clean, TRUE, CharsOf(UpperCase)))

\* the patterns of _detect_option_pattern, each matched against s without
\* regard to case
line_option_patterns(s) ==
    << starts_with(s, LettersAD, PunctSpace),
       starts_with(s, LettersAD, PunctSpace),
       starts_with_paren(s, LettersAD),
       (s # <<>> /\ s[1] \in LettersAD),
       letter_punct_letter(s),
       (/\ s # <<>> /\ s[1] \in LettersAD
        /\ skip(s, 2, Spaces) > 2
        /\ skip(s, 2, Spaces) <= Len(s) /\ s[skip(s, 2, Spaces)] \in Letters),
       starts_with(s, Digits14, PunctSpace),
       starts_with_paren(s, Digits14),
       starts_with_run(s, RomanChars, PunctSpace),
       (/\ s # <<>> /\ s[1] \in {"-", "U+2022", "*"}
        /\ skip(s, 2, Spaces) <= Len(s) /\ s[skip(s, 2, Spaces)] \in Letters) >>

\* DocumentParser._detect_option_pattern
detect_option_pattern(text) ==
    Let(strip_chars(text), LAMBDA text_clean :
        \/ \E i \in DOMAIN line_option_patterns(text_clean) :
                line_option_patterns(text_clean)[i]
        \/ /\ text_clean # <<>>
           /\ text_clean[1] \in LettersAD \cup Digits14
           /\ word_count(text_clean) > 1
           /\ Len(text_clean) > 1
           /\ \/ text_clean[2] \in {".", ",", ")", ":", "-", " "}
              \/ at(text_clean, 2, <<")", " ">>))

\* the markers of the documented question starts: '1.', '1)', 'Q1:',
\* 'Question 1', '(1)', 'I.', 'II)', '5.', '12)'
QuestionMarks ==
    { <<"1", ".">>,
      <<"1", ")">>,
      <<"Q", "1", ":">>,
      <<"Q", "u", "e", "s", "t", "i", "o", "n", " ", "1">>,
      <<"(", "1", ")">>,
      <<"I", ".">>,
      <<"I", "I", ")">>,
      <<"5", ".">>,
      <<"1", "2", ")">> }

\* ' What is the capital of France?'
Body_Capital ==
    <<" ", "W", "h", "a", "t", " ", "i", "s", " ", "t", "h", "e", " ", "c",
      "a", "p", "i", "t", "a", "l", " ", "o", "f", " ", "F", "r", "a", "n",
      "c", "e", "?">>

\* ' Define osmosis in plants'
Body_Osmosis ==
    <<" ", "D", "e", "f", "i", "n", "e", " ", "o", "s", "m", "o", "s", "i",
      "s", " ", "i", "n", " ", "p", "l", "a", "n", "t", "s">>

\* the texts that follow the marker of a question
QuestionBodies == {Body_Capital, Body_Osmosis}

\* the markers of the documented options: 'a)', 'B.', 'i.', '(c)', 'D:', '3.',
\* 'b,'
OptionMarks ==
    { <<"a", ")">>,
      <<"B", ".">>,
      <<"i", ".">>,
      <<"(", "c", ")">>,
      <<"D", ":">>,
      <<"3", ".">>,
      <<"b", ",">> }

\* the texts that follow the marker of an option, of at most 2 words: ' Paris',
\* ' 42', ' First option', ' Mercury *'
OptionBodies ==
    { <<" ", "P", "a", "r", "i", "s">>,
      <<" ", "4", "2">>,
      <<" ", "F", "i", "r", "s", "t", " ", "o", "p", "t", "i", "o", "n">>,
      <<" ", "M", "e", "r", "c", "u", "r", "y", " ", "*">> }

\* the documented question starts: a marker and a question text
QuestionCatalogue == {m[1] \o m[2] : m \in QuestionMarks \X QuestionBodies}

\* the documented short options: a marker and a text of at most 2 words
OptionCatalogue == {m[1] \o m[2] : m \in OptionMarks \X OptionBodies}

-----------------------------------------------------------------------------
(* DocumentParser._extract_marks, computed on the characters of a text       *)

\* [-–—]: the hyphen, the en dash and the em dash, one character each
Dashes == {"-", "U+2013", "U+2014"}

\* a pattern '<open>(\d+)\s*<word>s?<close>': open and close are the sets of the
\* characters allowed there, {} when the pattern has none; gap says that \s*
\* stands between open and the number
NumberWord(open, gap, word, close) ==
    [kind |-> "number_word", open |-> open, gap |-> gap, word |-> word, close |-> close]

\* a pattern '.*[^\d](\d+)<letter>\s*$'
Trailing(letter) == [kind |-> "trailing", letter |-> letter]

\* a pattern '<word>s?\s*[:=]\s*(\d+)', the s? only when plural
WordNumber(word, plural) == [kind |-> "word_number", word |-> word, plural |-> plural]

W_mark == <<"m", "a", "r", "k">>

W_point == <<"p", "o", "i", "n", "t">>

W_pt == <<"p", "t">>

W_total == <<"t", "o", "t", "a", "l">>

\* patterns of _extract_marks, in the order they are tried
mark_patterns ==
    << NumberWord({"["}, FALSE, W_mark, {"]"}),
       NumberWord({"("}, FALSE, W_mark, {")"}),
       NumberWord({"["}, FALSE, W_point, {"]"}),
       NumberWord({"("}, FALSE, W_point, {")"}),
       NumberWord({"["}, FALSE, W_pt, {"]"}),
       NumberWord({"("}, FALSE, W_pt, {")"}),
       NumberWord({}, FALSE, W_mark, {}),
       NumberWord({}, FALSE, W_point, {}),
       NumberWord({}, FALSE, W_pt, {}),
       NumberWord({}, FALSE, W_mark, {}),
       NumberWord({}, FALSE, W_point, {}),
       NumberWord({}, FALSE, W_pt, {}),
       NumberWord(Dashes, TRUE, W_mark, {}),
       NumberWord(Dashes, TRUE, W_point, {}),
       NumberWord(Dashes, TRUE, W_pt, {}),
       Trailing("m"),
       Trailing("p"),
       WordNumber(W_mark, TRUE),
       WordNumber(W_point, TRUE),
       WordNumber(W_total, FALSE) >>

\* the digits that start at position p of s: (\d+), greedy
digits_at(s, p) == SubSeq(s, p, skip(s, p, DigitChars) - 1)

\* position i of s after an optional 's'
after_plural(s, i) == IF i <= Len(s) /\ s[i] = "s" THEN i + 1 ELSE i

\* a NumberWord pattern matches s with its number starting at position p
number_word_at(s, p, pat) ==
    /\ s[p] \in DigitChars
    /\ \/ pat.open = {}
       \/ \E q \in 1..(p - 1) :
            /\ s[q] \in pat.open
            /\ IF pat.gap THEN \A k \in (q + 1)..(p - 1) : s[k] \in Spaces
               ELSE q = p - 1
    /\ Let(skip(s, skip(s, p, DigitChars), Spaces), LAMBDA k :
        /\ at(s, k, pat.word)
        /\ \/ pat.close = {}
           \/ /\ after_plural(s, k + Len(pat.word)) <= Len(s)
              /\ s[after_plural(s, k + Len(pat.word))] \in pat.close)

\* a WordNumber pattern matches s with its word starting at position i
word_number_at(s, i, pat) ==
    /\ at(s, i, pat.word)
    /\ Let(skip(s, IF pat.plural THEN after_plural(s, i + Len(pat.word))
                   ELSE i + Len(pat.word), Spaces),
           LAMBDA a :
               /\ a <= Len(s) /\ s[a] \in {":", "="}
               /\ skip(s, a + 1, Spaces) <= Len(s)
               /\ s[skip(s, a + 1, Spaces)] \in DigitChars)

\* the position of the number of a WordNumber match whose word starts at i
word_number_digits(s, i, pat) ==
    skip(s, 1 + skip(s, IF pat.plural THEN after_plural(s, i + Len(pat.word))
                        ELSE i + Len(pat.word), Spaces), Spaces)

\* the last position of s that holds no white space, 0 when there is none
last_char(s) ==
    IF \A i \in DOMAIN s : s[i] \in Spaces THEN 0
    ELSE CHOOSE j \in DOMAIN s :
            s[j] \notin Spaces /\ \A k \in (j + 1)..Len(s) : s[k] \in Spaces

\* the start of the run of digits that ends at position e of s, e + 1 when
\* position e holds no digit
run_start(s, e) ==
    CHOOSE b \in 1..(e + 1) :
        /\ \A k \in b..e : s[k] \in DigitChars
        /\ (b = 1 \/ s[b - 1] \notin DigitChars)

\* re.search(pattern, s).group(1) for a pattern of mark_patterns: the digits
\* captured by the first match, <<>> when there is no match
capture(s, pat) ==
    IF pat.kind = "number_word"
    THEN IF \E p \in DOMAIN s : number_word_at(s, p, pat)
         THEN digits_at(s, CHOOSE p \in DOMAIN s :
                              /\ number_word_at(s, p, pat)
                              /\ \A k \in 1..(p - 1) : ~number_word_at(s, k, pat))
         ELSE <<>>
    ELSE IF pat.kind = "trailing"
    THEN Let(last_char(s), LAMBDA e :
            IF /\ e >= 3 /\ s[e] = pat.letter
               /\ run_start(s, e - 1) <= e - 1
               /\ run_start(s, e - 1) >= 2
            THEN SubSeq(s, run_start(s, e - 1), e - 1)
            ELSE <<>>)
    ELSE IF \E i \in DOMAIN s : word_number_at(s, i, pat)
         THEN digits_at(s, word_number_digits(s,
                              CHOOSE i \in DOMAIN s :
                                  /\ word_number_at(s, i, pat)
                                  /\ \A k \in 1..(i - 1) : ~word_number_at(s, k, pat),
                              pat))
         ELSE <<>>

\* a number of re.findall(r'\b(\d+)\b', text) starts at position p and lies in
\* [1, 20]
standalone_at(s, p) ==
    /\ s[p] \in DigitChars
    /\ (p = 1 \/ s[p - 1] \notin WordChars)
    /\ (skip(s, p, DigitChars) > Len(s) \/ s[skip(s, p, DigitChars)] \notin WordChars)
    /\ to_int(digits_at(s, p)) \in 1..20

\* the end of _extract_marks: the first standalone number in [1, 20], else 1
standalone_marks(text) ==
    IF \E p \in DOMAIN text : standalone_at(text, p)
    THEN to_int(digits_at(text, CHOOSE p \in DOMAIN text :
                                    /\ standalone_at(text, p)
                                    /\ \A k \in 1..(p - 1) : ~standalone_at(text, k)))
    ELSE 1

\* `for pattern in patterns` from pattern i on: the first capture in [1, 100],
\* otherwise what follows the loop
RECURSIVE marks_from(_, _, _)
marks_from(text_lower, i, otherwise) ==
    IF i > Len(mark_patterns) THEN otherwise
    ELSE Let(capture(text_lower, mark_patterns[i]), LAMBDA digits :
            IF digits # <<>> /\ to_int(digits) \in 1..100 THEN to_int(digits)
            ELSE marks_from(text_lower, i + 1, otherwise))

\* _extract_marks without the search for a standalone number
extract_marks_of_patterns(text) ==
    Let(lower(text), LAMBDA text_lower : marks_from(text_lower, 1, 1))

\* DocumentParser._extract_marks
extract_marks(text) ==
    Let(lower(text), LAMBDA text_lower :
        Let(standalone_marks(text), LAMBDA otherwise :
            marks_from(text_lower, 1, otherwise)))

\* 'Explain photosynthesis'
Stem_Explain ==
    <<"E", "x", "p", "l", "a", "i", "n", " ", "p", "h", "o", "t", "o", "s",
      "y", "n", "t", "h", "e", "s", "i", "s">>

\* 'What is 2+2?'
Stem_Sum ==
    <<"W", "h", "a", "t", " ", "i", "s", " ", "2", "+", "2", "?">>

\* 'Name 25 rivers'
Stem_Rivers ==
    <<"N", "a", "m", "e", " ", "2", "5", " ", "r", "i", "v", "e", "r", "s">>

\* the texts of questions without their marks
Stems == {Stem_Explain, Stem_Sum, Stem_Rivers}

\* ' [10 marks]'
Note_10_marks ==
    <<" ", "[", "1", "0", " ", "m", "a", "r", "k", "s", "]">>

\* what a document writes after a question to give its marks: nothing,
\* ' [10 marks]', ' (3 marks)', ' 8pts', ' 1m', ' - 5 points', ' marks: 7',
\* ' total = 15', ' [200 marks]', ' (1 point)', ' 101 marks 4p', ' [2 Marks]'
MarkNotes ==
    { <<>>, Note_10_marks,
      <<" ", "(", "3", " ", "m", "a", "r", "k", "s", ")">>,
      <<" ", "8", "p", "t", "s">>,
      <<" ", "1", "m">>,
      <<" ", "-", " ", "5", " ", "p", "o", "i", "n", "t", "s">>,
      <<" ", "m", "a", "r", "k", "s", ":", " ", "7">>,
      <<" ", "t", "o", "t", "a", "l", " ", "=", " ", "1", "5">>,
      <<" ", "[", "2", "0", "0", " ", "m", "a", "r", "k", "s", "]">>,
      <<" ", "(", "1", " ", "p", "o", "i", "n", "t", ")">>,
      <<" ", "1", "0", "1", " ", "m", "a", "r", "k", "s", " ", "4", "p">>,
      <<" ", "[", "2", " ", "M", "a", "r", "k", "s", "]">> }

\* texts of questions with and without marks
MarksTexts == {m[1] \o m[2] : m \in Stems \X MarkNotes}

\* the texts given to the detectors and to _extract_marks
PatternTexts == QuestionCatalogue \cup OptionCatalogue \cup MarksTexts

\* before a text is looked at: nothing is known of it; a result is <<>> as long
\* as its function has not been called
StartPatterns(text) ==
    [pc |-> "patterns", text |-> text, question |-> <<>>, option |-> <<>>, marks |-> <<>>]

\* self._detect_question_pattern(text)
DetectQuestionPattern ==
    /\ parsing.pc = "patterns"
    /\ parsing.question = <<>>
    /\ parsing' = [parsing EXCEPT !.question = <<detect_question_pattern(parsing.text)>>]
    /\ UNCHANGED <<store, call, calls, upload, processing>>

\* self._detect_option_pattern(text)
DetectOptionPattern ==
    /\ parsing.pc = "patterns"
    /\ parsing.option = <<>>
    /\ parsing' = [parsing EXCEPT !.option = <<detect_option_pattern(parsing.text)>>]
    /\ UNCHANGED <<store, call, calls, upload, processing>>

\* self._extract_marks(text)
ExtractMarks ==
    /\ parsing.pc = "patterns"
    /\ parsing.marks = <<>>
    /\ parsing' = [parsing EXCEPT !.marks = <<extract_marks(parsing.text)>>]
    /\ UNCHANGED <<store, call, calls, upload, processing>>

-----------------------------------------------------------------------------
(* instruction headers: DocumentParser._detect_instruction_pattern, its       *)
(* regular expressions matched character by character as re.match does:     *)
(* greedy, backtracking, the first pattern that matches wins                  *)

\* one alternative of a pattern element: a literal word, matched without
\* regard to case
Word(word) == [word |-> word]

\* one alternative of a pattern element: between min and max characters of a
\* class, as many as possible
Class(chars, min, max) == [chars |-> chars, min |-> min, max |-> max]

\* the literal word stands at position i of s, without regard to case
word_at(s, i, word) ==
    /\ i + Len(word) - 1 <= Len(s)
    /\ \A k \in DOMAIN word : lower_char(s[i + k - 1]) = word[k]

\* n, n - 1, .., m
Down(n, m) == [k \in 1..(n - m + 1) |-> n - k + 1]

\* the positions at which an alternative that starts at i may end, in the
\* order in which re tries them: the longest run of a class first
atom_ends(s, i, atom) ==
    IF "word" \in DOMAIN atom
    THEN IF word_at(s, i, atom.word) THEN <<i + Len(atom.word)>> ELSE <<>>
    ELSE Let(skip(s, i, atom.chars) - i, LAMBDA run :
            Down(i + (IF run > atom.max THEN atom.max ELSE run), i + atom.min))

\* the positions at which an element, a sequence of alternatives, may end: the
\* alternatives in their order
RECURSIVE element_ends(_, _, _, _)
element_ends(s, i, element, a) ==
    IF a > Len(element) THEN <<>>
    ELSE atom_ends(s, i, element[a]) \o element_ends(s, i, element, a + 1)

\* re.match of the elements k.. of a pattern at position i of s: <<>> for no
\* match, else the positions where the elements k.. start, followed by the
\* position where the match ends; first_end tries the ends of element k in
\* their order and keeps the first after which the rest of the pattern matches
RECURSIVE match_from(_, _, _, _), first_end(_, _, _, _, _, _)
first_end(s, i, elements, k, ends, j) ==
    IF j > Len(ends) THEN <<>>
    ELSE Let(match_from(s, ends[j], elements, k + 1), LAMBDA tail :
            IF tail # <<>> THEN <<i>> \o tail
            ELSE first_end(s, i, elements, k, ends, j + 1))

match_from(s, i, elements, k) ==
    IF k > Len(elements) THEN <<i>>
    ELSE first_end(s, i, elements, k, element_ends(s, i, elements[k], 1), 1)

\* match.groups() of a match at the positions at: the texts of the elements
\* that the pattern puts in parentheses, each from its first to its last
\* element
groups_of(s, pattern, at_) ==
    [g \in DOMAIN pattern.groups |->
        SubSeq(s, at_[pattern.groups[g][1]], at_[pattern.groups[g][2] + 1] - 1)]

\* \s* and \s+
Blanks == <<Class(Spaces, 0, 99)>>

Blanks1 == <<Class(Spaces, 1, 99)>>

\* :? and [-:]?
Colon == <<Class({":"}, 0, 1)>>

DashColon == <<Class({"-", ":"}, 0, 1)>>

\* (.+): the texts hold no line break
AnyChars == CharsOf(UpperCase) \cup CharsOf(LowerCase) \cup DigitChars
                \cup Dashes \cup {" ", ":", ".", "&", "?", ")", "(", ","}

Rest == <<Class(AnyChars, 1, 99)>>

\* (\d+)
Number == <<Class(DigitChars, 1, 99)>>

\* the words of the patterns, in lower case
W_instruction ==
    <<"i", "n", "s", "t", "r", "u", "c", "t", "i", "o", "n">>

W_instructions ==
    <<"i", "n", "s", "t", "r", "u", "c", "t", "i", "o", "n", "s">>

W_for ==
    <<"f", "o", "r">>

W_general ==
    <<"g", "e", "n", "e", "r", "a", "l">>

W_section ==
    <<"s", "e", "c", "t", "i", "o", "n">>

W_part ==
    <<"p", "a", "r", "t">>

W_component ==
    <<"c", "o", "m", "p", "o", "n", "e", "n", "t">>

W_question ==
    <<"q", "u", "e", "s", "t", "i", "o", "n">>

W_questions ==
    <<"q", "u", "e", "s", "t", "i", "o", "n", "s">>

W_synonym ==
    <<"s", "y", "n", "o", "n", "y", "m">>

W_synonyms ==
    <<"s", "y", "n", "o", "n", "y", "m", "s">>

W_antonym ==
    <<"a", "n", "t", "o", "n", "y", "m">>

W_antonyms ==
    <<"a", "n", "t", "o", "n", "y", "m", "s">>

W_grammar ==
    <<"g", "r", "a", "m", "m", "a", "r">>

W_comprehension ==
    <<"c", "o", "m", "p", "r", "e", "h", "e", "n", "s", "i", "o", "n">>

W_vocabulary ==
    <<"v", "o", "c", "a", "b", "u", "l", "a", "r", "y">>

W_lexis ==
    <<"l", "e", "x", "i", "s">>

W_structure ==
    <<"s", "t", "r", "u", "c", "t", "u", "r", "e">>

W_reading ==
    <<"r", "e", "a", "d", "i", "n", "g">>

W_writing ==
    <<"w", "r", "i", "t", "i", "n", "g">>

W_listening ==
    <<"l", "i", "s", "t", "e", "n", "i", "n", "g">>

W_speaking ==
    <<"s", "p", "e", "a", "k", "i", "n", "g">>

\* INSTRUCTIONS? and QUESTIONS?: the longer word is tried first
Instructions_ == <<Word(W_instructions), Word(W_instruction)>>

Questions_ == <<Word(W_questions), Word(W_question)>>

\* a pattern: its elements, the groups as <<first element, last element>>, and which of the
\* words that _detect_instruction_pattern looks for in pattern.upper() the
\* pattern holds
Pattern(elements, groups, keywords) ==
    [elements |-> elements, groups |-> groups, keywords |-> keywords]

\* instruction_patterns, in the order of the list
instruction_patterns ==
    << \* r'^INSTRUCTIONS?\s*:?\s*(.+)'
       Pattern(<<Instructions_, Blanks, Colon, Blanks, Rest>>, <<<<5, 5>>>>, {}),
       \* r'^INSTRUCTION\s+FOR\s+(.+)'
       Pattern(<<<<Word(W_instruction)>>, Blanks1, <<Word(W_for)>>, Blanks1, Rest>>,
               <<<<5, 5>>>>, {}),
       \* r'^GENERAL\s+INSTRUCTIONS?\s*:?\s*(.+)'
       Pattern(<<<<Word(W_general)>>, Blanks1, Instructions_, Blanks, Colon, Blanks,
                 Rest>>, <<<<7, 7>>>>, {}),
       \* r'^SECTION\s+([A-Z])\s*[-:]?\s*(.+)'
       Pattern(<<<<Word(W_section)>>, Blanks1, <<Class(Letters, 1, 1)>>, Blanks,
                 DashColon, Blanks, Rest>>, <<<<3, 3>>, <<7, 7>>>>, {"SECTION"}),
       \* r'^PART\s+([A-Z]|[IVX]+|\d+)\s*[-:]?\s*(.+)'
       Pattern(<<<<Word(W_part)>>, Blanks1,
                 <<Class(Letters, 1, 1), Class(RomanChars, 1, 99),
                   Class(DigitChars, 1, 99)>>,
                 Blanks, DashColon, Blanks, Rest>>, <<<<3, 3>>, <<7, 7>>>>, {"PART"}),
       \* r'^COMPONENT\s+(\d+)\s*[-:]?\s*(.+)'
       Pattern(<<<<Word(W_component)>>, Blanks1, Number, Blanks, DashColon, Blanks,
                 Rest>>, <<<<3, 3>>, <<7, 7>>>>, {"COMPONENT"}),
       \* r'^(SYNONYMS?|ANTONYMS?|GRAMMAR|COMPREHENSION|VOCABULARY|LEXIS|STRUCTURE)\s*:?\s*(.+)'
       Pattern(<<<<Word(W_synonyms), Word(W_synonym), Word(W_antonyms),
                   Word(W_antonym), Word(W_grammar), Word(W_comprehension),
                   Word(W_vocabulary), Word(W_lexis), Word(W_structure)>>,
                 Blanks, Colon, Blanks, Rest>>, <<<<1, 1>>, <<5, 5>>>>, {"SYNONYMS", "ANTONYMS", "GRAMMAR", "VOCABULARY"}),
       \* r'^(READING|WRITING|LISTENING|SPEAKING)\s+SECTION\s*:?\s*(.+)'
       Pattern(<<<<Word(W_reading), Word(W_writing), Word(W_listening),
                   Word(W_speaking)>>,
                 Blanks1, <<Word(W_section)>>, Blanks, Colon, Blanks, Rest>>,
               <<<<1, 1>>, <<7, 7>>>>, {"SECTION"}),
       \* r'^INSTRUCTIONS?\s+FOR\s+QUESTIONS?\s+(\d+)\s*[-<en dash>]\s*(\d+)\s*:?\s*(.+)'
       Pattern(<<Instructions_, Blanks1, <<Word(W_for)>>, Blanks1, Questions_, Blanks1,
                 Number, Blanks, <<Class({"-", "U+2013"}, 1, 1)>>, Blanks, Number,
                 Blanks, Colon, Blanks, Rest>>, <<<<7, 7>>, <<11, 11>>, <<15, 15>>>>, {"QUESTIONS"}),
       \* r'^FOR\s+QUESTIONS?\s+(\d+)\s*[-<en dash>]\s*(\d+)\s*:?\s*(.+)'
       Pattern(<<<<Word(W_for)>>, Blanks1, Questions_, Blanks1,
                 Number, Blanks, <<Class({"-", "U+2013"}, 1, 1)>>, Blanks, Number,
                 Blanks, Colon, Blanks, Rest>>, <<<<5, 5>>, <<9, 9>>, <<13, 13>>>>, {"QUESTIONS"}),
       \* r'^([A-Z][A-Z\s&]+):\s*(.+)'
       Pattern(<<<<Class(Letters, 1, 1)>>,
                 <<Class(Letters \cup Spaces \cup {"&"}, 1, 99)>>,
                 <<Word(<<":">>)>>, Blanks, Rest>>, <<<<1, 2>>, <<5, 5>>>>, {}) >>

\* the dict that _detect_instruction_pattern returns for a match of a pattern
\* with the groups; title, identifier and instruction_text are groups too and
\* are left out, but for the instruction_text of a range
instruction_match(pattern, groups) ==
    IF "SECTION" \in pattern.keywords
    THEN [type |-> "section", applies_to |-> "following_questions"]
    ELSE IF "COMPONENT" \in pattern.keywords \/ "PART" \in pattern.keywords
    THEN [type |-> "component", applies_to |-> "following_questions"]
    ELSE IF "QUESTIONS" \in pattern.keywords /\ Len(groups) >= 3
    THEN [type |-> "range", start_question |-> to_int(groups[1]),
          end_question |-> to_int(groups[2]), instruction_text |-> groups[3],
          applies_to |-> "question_range"]
    ELSE IF pattern.keywords \cap {"SYNONYMS", "ANTONYMS", "GRAMMAR", "VOCABULARY"} # {}
    THEN [type |-> "subject_component", applies_to |-> "following_questions"]
    ELSE [type |-> "general", applies_to |-> "following_questions"]

\* 'for pattern in instruction_patterns' from pattern k on: None when no
\* pattern matches
RECURSIVE detect_instruction_from(_, _, _)
detect_instruction_from(text_stripped, patterns, k) ==
    IF k > Len(patterns) THEN None
    ELSE Let(match_from(text_stripped, 1, patterns[k].elements, 1), LAMBDA at_ :
            IF at_ # <<>>
            THEN instruction_match(patterns[k], groups_of(text_stripped, patterns[k], at_))
            ELSE detect_instruction_from(text_stripped, patterns, k + 1))

\* DocumentParser._detect_instruction_pattern
detect_instruction_pattern(text) ==
    detect_instruction_from(strip_chars(text), instruction_patterns, 1)

\* 'Instructions for Questions '
Head_Instructions_for_Questions ==
    <<"I", "n", "s", "t", "r", "u", "c", "t", "i", "o", "n", "s", " ", "f",
      "o", "r", " ", "Q", "u", "e", "s", "t", "i", "o", "n", "s", " ">>

\* 'Instruction for questions '
Head_Instruction_for_Questions ==
    <<"I", "n", "s", "t", "r", "u", "c", "t", "i", "o", "n", " ", "f", "o",
      "r", " ", "q", "u", "e", "s", "t", "i", "o", "n", "s", " ">>

\* 'For Questions '
Head_For_Questions ==
    <<"F", "o", "r", " ", "Q", "u", "e", "s", "t", "i", "o", "n", "s", " ">>

\* 'for question '
Head_For_Question ==
    <<"f", "o", "r", " ", "q", "u", "e", "s", "t", "i", "o", "n", " ">>

\* the headers that name a range of questions, before the numbers
RangeHeads ==
    {Head_Instructions_for_Questions, Head_Instruction_for_Questions,
     Head_For_Questions, Head_For_Question}

\* the numbers M and N of a range as they are written: '1-2', '2 - 2', '1<en dash>10'
RangeNumbers ==
    { [text |-> <<"1", "-", "2">>, M |-> 1, N |-> 2],
      [text |-> <<"2", " ", "-", " ", "2">>, M |-> 2, N |-> 2],
      [text |-> <<"1", "U+2013", "1", "0">>, M |-> 1, N |-> 10] }

\* what separates the numbers from the text of the instruction
RangeColons == {<<":", " ">>, <<" ">>}

\* 'Choose the best answer.'
Text_Choose ==
    <<"C", "h", "o", "o", "s", "e", " ", "t", "h", "e", " ", "b", "e", "s",
      "t", " ", "a", "n", "s", "w", "e", "r", ".">>

\* 'Read'
Text_Read ==
    <<"R", "e", "a", "d">>

HeaderBodies == {Text_Choose, Text_Read}

\* the headers of question ranges
RangeHeaders ==
    {h \o r.text \o c \o b :
        h \in RangeHeads, r \in RangeNumbers, c \in RangeColons, b \in HeaderBodies}

\* the starts of the other documented headers, and of two blocks that are
\* no headers
OtherHeads ==
    { <<"I", "N", "S", "T", "R", "U", "C", "T", "I", "O", "N", "S", ":", " ">>,
      <<"I", "n", "s", "t", "r", "u", "c", "t", "i", "o", "n", " ">>,
      <<"G", "e", "n", "e", "r", "a", "l", " ", "I", "n", "s", "t", "r", "u",
  "c", "t", "i", "o", "n", "s", ":", " ">>,
      <<"S", "e", "c", "t", "i", "o", "n", " ", "A", ":", " ">>,
      <<"S", "E", "C", "T", "I", "O", "N", " ", "B", " ", "-", " ">>,
      <<"P", "a", "r", "t", " ", "I", "I", " ", "-", " ">>,
      <<"P", "a", "r", "t", " ", "1", ":", " ">>,
      <<"C", "o", "m", "p", "o", "n", "e", "n", "t", " ", "1", ":", " ">>,
      <<"S", "y", "n", "o", "n", "y", "m", "s", ":", " ">>,
      <<"C", "O", "M", "P", "R", "E", "H", "E", "N", "S", "I", "O", "N", ":",
  " ">>,
      <<"R", "e", "a", "d", "i", "n", "g", " ", "S", "e", "c", "t", "i", "o",
  "n", ":", " ">>,
      <<"L", "E", "X", "I", "S", " ", "A", "N", "D", " ", "S", "T", "R", "U",
  "C", "T", "U", "R", "E", ":", " ">>,
      <<"1", ".", " ">>,
      <<"W", "h", "a", "t", " ", "i", "s", " ">> }

\* the texts given to _detect_instruction_pattern
HeaderTexts == RangeHeaders \cup {h \o b : h \in OtherHeads, b \in HeaderBodies}

\* before a text is looked at; header is <<>> as long as the function has not
\* been called
StartHeader(text) == [pc |-> "header", text |-> text, header |-> <<>>]

\* self._detect_instruction_pattern(text)
DetectInstructionPattern ==
    /\ parsing.pc = "header"
    /\ parsing.header = <<>>
    /\ parsing' = [parsing EXCEPT !.header = <<detect_instruction_pattern(parsing.text)>>]
    /\ UNCHANGED <<store, call, calls, upload, processing>>

-----------------------------------------------------------------------------
(* blocks that satisfy the heuristic of _is_standalone_instruction           *)

\* a block of instruction keywords, descriptive and of more than 3 words, that
\* is no formal header; _is_standalone_instruction is False for every block
\* that _detect_question_pattern takes for a question start
StandaloneBlock == [PlainBlock EXCEPT !.standalone = TRUE, !.text = "note"]

\* such a block that _detect_option_pattern takes for an option as well, as
\* 'a) Choose the following.'
StandaloneOptionBlock == [OptionBlock(FALSE) EXCEPT !.standalone = TRUE, !.text = "note"]

\* the blocks of documents with heuristic instructions
StandaloneBlocks ==
    {StandaloneBlock, StandaloneOptionBlock, QuestionBlock("mcq", 1),
     QuestionBlock("theory", 2), HeaderBlock(InstructionMatch("section"))}

-----------------------------------------------------------------------------
(* save_questions_to_exam with the instruction ids of the payload: the ids   *)
(* of the instructions that are inserted and the instruction_id that every   *)
(* stored question takes from its draft                                      *)

\* the ids of the instructions of the parsed document
InstructionIds == {uuid4(k) : k \in 1..MaxBatch}

\* question.get('instruction_id') of a draft: None, or the id of an instruction
\* of the document
DraftInstructionIds == {None} \cup {PyStr(id) : id \in InstructionIds}

\* lists of n distinct members of S
DistinctSeqs(S, n) == {s \in [1..n -> S] : \A j, k \in 1..n : j # k => s[j] # s[k]}

\* the payload is read, the exam is looked up. valid_instructions holds the
\* instructions that passed the validation; the legacy shape holds no
\* instructions; a draft may name any instruction of the document
SaveBeginWithIds(p) ==
    /\ ~Running(p)
    /\ calls < MaxCalls
    /\ calls' = calls + 1
    /\ \E id \in ExamIds, shape \in Shapes, size \in Payloads :
       \E valid_instructions \in DistinctSeqs(InstructionIds, size[1]),
          mcq \in [1..size[2] -> DraftInstructionIds],
          theory \in [1..size[3] -> DraftInstructionIds] :
         LET instructions == IF shape = "legacy" THEN <<>> ELSE valid_instructions
             c == [pc |-> "idle", instructions |-> instructions, mcq_questions |-> mcq,
                   theory_questions |-> theory, instruction_map |-> {}]
                  @@ [IdleCall EXCEPT !.exam_id = id,
                                      !.n_instr = Len(instructions),
                                      !.n_mcq = size[2],
                                      !.n_theory = size[3]]
         IN call' = [call EXCEPT ![p] =
                CASE id = "malformed" ->
                        ReturnError(c, "Failed to save questions and instructions")
                  [] id = "missing" \/ ~exam.is_active ->
                        ReturnError(c, "Exam not found")
                  [] OTHER ->
                        IF c.n_instr > 0 THEN [c EXCEPT !.pc = "instructions"]
                        ELSE [c EXCEPT !.pc = "numbering"]]
    /\ UNCHANGED <<store, upload, processing, parsing>>

\* one iteration of the instruction loop: insert_one, then
\* instruction_map[instruction['id']] = instruction_data
SaveInstructionWithId(p) ==
    LET c == call[p] IN
    /\ c.pc = "instructions"
    /\ \/ /\ exam_instructions' = exam_instructions + 1
          /\ call' = [call EXCEPT ![p] =
                NextInstruction([c EXCEPT
                    !.saved_instructions = c.saved_instructions + 1,
                    !.instruction_map = c.instruction_map \cup {c.instructions[c.i + 1]}])]
       \/ /\ CanFail(c)
          /\ exam_instructions' = exam_instructions
          /\ call' = [call EXCEPT ![p] =
                NextInstruction([c EXCEPT !.failed = c.failed \cup {<<"instruction", c.i + 1>>}])]
    /\ UNCHANGED <<questions, exam, calls, upload, processing, parsing>>

\* one iteration of the loop of a question type, with
\* 'instruction_id': question.get('instruction_id')
SaveQuestionWithId(p, q_type) ==
    LET c == call[p]
        drafts == IF q_type = "mcq" THEN c.mcq_questions ELSE c.theory_questions
        count == IF q_type = "mcq" THEN c.mcq_count ELSE c.theory_count
        next(d) == IF q_type = "mcq" THEN NextMcq(d) ELSE NextTheory(d)
    IN
    /\ c.pc = q_type
    /\ \E draft_marks \in DraftMarks :
         LET question_data ==
                [question_type |-> q_type,
                 question_number |-> count + c.i + 1,
                 marks |-> IF q_type = "mcq" THEN McqMarks(c.n_mcq, draft_marks)
                           ELSE draft_marks,
                 instruction_id |-> drafts[c.i + 1]]
         IN \/ /\ questions' = create_question(question_data)
               /\ call' = [call EXCEPT ![p] =
                    next(IF q_type = "mcq"
                         THEN [c EXCEPT !.saved_mcq = Append(@, Len(questions) + 1)]
                         ELSE [c EXCEPT !.saved_theory = Append(@, Len(questions) + 1)])]
            \/ /\ CanFail(c)
               /\ questions' = questions
               /\ call' = [call EXCEPT ![p] =
                    next([c EXCEPT !.errors = Append(c.errors, <<q_type, c.i + 1>>),
                                   !.failed = c.failed \cup {<<q_type, c.i + 1>>}])]
    /\ UNCHANGED <<exam_instructions, exam, calls, upload, processing, parsing>>

SaveMcqWithId(p) == SaveQuestionWithId(p, "mcq")

SaveTheoryWithId(p) == SaveQuestionWithId(p, "theory")

-----------------------------------------------------------------------------
(* Specifications *)

Init ==
    /\ questions = <<>>
    /\ exam_instructions = 0
    /\ exam = [is_active |-> TRUE]
    /\ call = [p \in Procs |-> IdleCall]
    /\ calls = 0
    /\ upload = NoUpload
    /\ processing = Empty
    /\ parsing = Empty

\* confirmations of one exam, one at a time
SaveSeq == Quiet /\ SaveBegin("A", Payloads)

StepSeq == Step("A")

Next == SaveSeq \/ StepSeq

Spec == Init /\ [][Next]_vars

\* confirmations and soft deletes of one exam, one at a time
DeleteSeq == Quiet /\ \E id \in 1..Len(questions) : delete_question(id)

NextDel == SaveSeq \/ StepSeq \/ DeleteSeq

SpecDel == Init /\ [][NextDel]_vars

\* two confirmations of one exam whose store calls interleave
SaveConc == \E p \in Procs : SaveBegin(p, Payloads)

StepConc == \E p \in Procs : Step(p)

NextConc == SaveConc \/ StepConc

SpecConc == Init /\ [][NextConc]_vars

\* one confirmation with a large MCQ batch
SaveBig == calls = 0 /\ SaveBegin("A", BigPayloads)

NextMarks == SaveBig \/ StepSeq

SpecMarks == Init /\ [][NextMarks]_vars

\* uploads of artifacts for one exam
NextUpload == process_upload

SpecUpload == Init /\ [][NextUpload]_vars

\* batch validations of parse results holding one draft of any shape
NextValidate == ProcessSingle

SpecValidate == Init /\ [][NextValidate]_vars

\* batch validations of long parse results
NextPreview == ProcessLong

SpecPreview == Init /\ [][NextPreview]_vars

\* the state before the first paragraph of a document is read
InitParse ==
    /\ questions = <<>>
    /\ exam_instructions = 0
    /\ exam = [is_active |-> TRUE]
    /\ call = [p \in Procs |-> IdleCall]
    /\ calls = 0
    /\ upload = NoUpload
    /\ processing = Empty
    /\ parsing = StartParse

\* the Line-Classification Parser on documents of headers, questions and options
NextScope == ReadBlock(ScopeBlocks) \/ EndOfStream \/ ProcessRanges

SpecScope == InitParse /\ [][NextScope]_vars

\* calls of SnapshotParser._normalize_final_question, one per behaviour
NextNormalize == NormalizeFinalQuestion

SpecNormalize == Init /\ [][NextNormalize]_vars

\* the Snapshot Parser on one .docx per behaviour
NextSnapshot == ParseDocxSnapshot \/ SnapshotParagraph \/ SnapshotReturn

SpecSnapshot == Init /\ [][NextSnapshot]_vars

\* the state before the first block of a document, on either path of the
\* Line-Classification Parser
InitLines ==
    /\ questions = <<>>
    /\ exam_instructions = 0
    /\ exam = [is_active |-> TRUE]
    /\ call = [p \in Procs |-> IdleCall]
    /\ calls = 0
    /\ upload = NoUpload
    /\ processing = Empty
    /\ parsing \in {StartParse, StartHtmlParse}

\* the Line-Classification Parser, DOCX and HTML paths, on documents of
\* questions, options, sub-questions and continuation text
NextLines ==
    \/ ReadBlock(LineBlocks) \/ EndOfStream \/ ProcessRanges
    \/ ReadHtmlBlock(LineBlocks) \/ EndOfHtmlStream \/ ProcessHtmlRanges

SpecLines == InitLines /\ [][NextLines]_vars
\* a text is about to be given to the pattern functions
InitPatterns ==
    /\ questions = <<>>
    /\ exam_instructions = 0
    /\ exam = [is_active |-> TRUE]
    /\ call = [p \in Procs |-> IdleCall]
    /\ calls = 0
    /\ upload = NoUpload
    /\ processing = Empty
    /\ parsing \in {StartPatterns(text) : text \in PatternTexts}

\* the pattern functions of the Line-Classification Parser, each called once on
\* a text
NextPatterns == DetectQuestionPattern \/ DetectOptionPattern \/ ExtractMarks

SpecPatterns == InitPatterns /\ [][NextPatterns]_vars

InitHeaders ==
    /\ questions = <<>>
    /\ exam_instructions = 0
    /\ exam = [is_active |-> TRUE]
    /\ call = [p \in Procs |-> IdleCall]
    /\ calls = 0
    /\ upload = NoUpload
    /\ processing = Empty
    /\ parsing \in {StartHeader(text) : text \in HeaderTexts}

\* _detect_instruction_pattern, called once on a text
NextHeaders == DetectInstructionPattern

SpecHeaders == InitHeaders /\ [][NextHeaders]_vars

\* the Line-Classification Parser, DOCX and HTML paths, on documents with
\* heuristic instructions between and inside the questions
NextStandalone ==
    \/ ReadBlock(StandaloneBlocks) \/ EndOfStream \/ ProcessRanges
    \/ ReadHtmlBlock(StandaloneBlocks) \/ EndOfHtmlStream \/ ProcessHtmlRanges

SpecStandalone == InitLines /\ [][NextStandalone]_vars

\* one confirmation of an exam that holds no instruction, with the
\* instruction ids of the payload
SaveRefs == calls = 0 /\ SaveBeginWithIds("A")

NextRefs ==
    \/ SaveRefs
    \/ SaveInstructionWithId("A")
    \/ Numbering("A")
    \/ SaveMcqWithId("A")
    \/ SaveTheoryWithId("A")
    \/ PoolMcq("A")
    \/ PoolTheory("A")
    \/ UpdateExam("A")

SpecRefs == Init /\ [][NextRefs]_vars

-----------------------------------------------------------------------------
(* Properties *)

Ran(u, step) == \E k \in 1..Len(u.ran) : u.ran[k] = step

ParserRan(u) == Ran(u, "snapshot") \/ Ran(u, "line")

\* the stored questions of type t that are active
ActiveOfType(t) ==
    {k \in DOMAIN questions : questions[k].is_active /\ questions[k].question_type = t}

\* the pool fields of one type agree with the stored questions, or are not set
\* and no question of the type is stored
PoolAgrees(count_field, flag_field, t) ==
    IF count_field \in DOMAIN exam
    THEN /\ exam[count_field] = Cardinality(ActiveOfType(t))
         /\ flag_field \in DOMAIN exam
         /\ exam[flag_field] = (ActiveOfType(t) # {})
    ELSE /\ flag_field \notin DOMAIN exam
         /\ ActiveOfType(t) = {}

\* the pool fields of one type are set and agree with the stored questions
PoolSet(count_field, flag_field, t) ==
    /\ count_field \in DOMAIN exam
    /\ flag_field \in DOMAIN exam
    /\ exam[count_field] = Cardinality(ActiveOfType(t))
    /\ exam[flag_field] = (ActiveOfType(t) # {})

\* C1: every MCQ question persisted by a save of n >= 1 new MCQ drafts carries
\* marks max(1, 30 div n), whatever marks its draft carried; 10 for n = 3 and
\* 4 for n = 7.
C1_EqualMarks ==
    \A p \in Procs : \A k \in 1..Len(call[p].saved_mcq) :
        LET q == questions[call[p].saved_mcq[k]]
            n == call[p].n_mcq
        IN /\ n >= 1
           /\ q.question_type = "mcq"
           /\ q.marks = (IF 30 \div n >= 1 THEN 30 \div n ELSE 1)
           /\ (n = 3 => q.marks = 10)
           /\ (n = 7 => q.marks = 4)

C1_Witness ==
    \E p \in Procs :
        /\ call[p].pc = "done"
        /\ call[p].n_mcq = 7
        /\ Len(call[p].saved_mcq) = 7
        /\ \A k \in 1..7 : questions[call[p].saved_mcq[k]].marks = 4

\* C2: when save_questions_to_exam returns its counts, every submitted question
\* was attempted: each failed MCQ or Theory question has exactly one entry in
\* errors and saved_mcq + saved_theory + len(errors) is the number submitted.
C2_PartialSuccess ==
    \A p \in Procs :
        LET c == call[p]
            failedq == {f \in c.failed : f[1] # "instruction"}
        IN (c.pc = "done" /\ c.result.success) =>
            /\ c.result.saved_mcq + c.result.saved_theory + Len(c.result.errors)
                    = c.n_mcq + c.n_theory
            /\ {c.result.errors[k] : k \in 1..Len(c.result.errors)} = failedq
            /\ Len(c.result.errors) = Cardinality(failedq)

C2_Witness ==
    \E p \in Procs :
        /\ call[p].pc = "done"
        /\ call[p].n_mcq = 2
        /\ call[p].failed = {<<"mcq", 1>>}
        /\ call[p].result.success
        /\ call[p].result.saved_mcq = 1
        /\ call[p].result.errors = <<(<<"mcq", 1>>)>>

\* C3: every instruction whose insert failed is an entry of the returned errors,
\* and the remaining instructions and all questions were still attempted.
C3_InstructionErrorsReported ==
    \A p \in Procs :
        LET c == call[p] IN
        (c.pc = "done" /\ c.result.success) =>
            /\ \A f \in c.failed :
                  f[1] = "instruction" =>
                      \E k \in 1..Len(c.result.errors) : c.result.errors[k] = f
            /\ c.result.saved_instructions
                  + Cardinality({f \in c.failed : f[1] = "instruction"}) = c.n_instr
            /\ c.result.saved_mcq + c.result.saved_theory
                  + Cardinality({f \in c.failed : f[1] # "instruction"})
                      = c.n_mcq + c.n_theory

\* C4 (as claimed): after saves run one at a time, mcq_pool_count and
\* theory_pool_count of the exam record equal the numbers of active questions of
\* the type, and has_mcq / has_theory are true exactly when the count is positive.
C4_PoolCountsSet ==
    (Quiet /\ call["A"].pc = "done" /\ call["A"].result.success /\ Len(questions) > 0) =>
        /\ PoolSet("mcq_pool_count", "has_mcq", "mcq")
        /\ PoolSet("theory_pool_count", "has_theory", "theory")

\* C4 (amended): after saves run one at a time, for each type either the exam
\* record carries neither the pool count nor the flag and no question of the type
\* is stored, or the pool count equals the number of active questions of the type
\* and the flag is true exactly when that count is positive.
C4_PoolCounts ==
    Quiet =>
        /\ PoolAgrees("mcq_pool_count", "has_mcq", "mcq")
        /\ PoolAgrees("theory_pool_count", "has_theory", "theory")

C4_Witness ==
    /\ Quiet
    /\ calls = 2
    /\ call["A"].failed # {}
    /\ "mcq_pool_count" \in DOMAIN exam
    /\ exam.mcq_pool_count = 2
    /\ "theory_pool_count" \in DOMAIN exam
    /\ exam.theory_pool_count = 1

\* C5: once two interleaved saves of one exam have both finished, the pool
\* counts of the exam record equal the live counts of active questions.
C5_PoolCountsConverge ==
    (\A p \in Procs : call[p].pc = "done") =>
        /\ PoolAgrees("mcq_pool_count", "has_mcq", "mcq")
        /\ PoolAgrees("theory_pool_count", "has_theory", "theory")

\* C6: after saves and soft deletes run one at a time, the active questions of
\* one type carry pairwise distinct question numbers, and a question saved later
\* carries a greater number than every question of its type saved before it.
C6_Numbering ==
    \A j, k \in 1..Len(questions) :
        (j < k /\ questions[j].question_type = questions[k].question_type) =>
            /\ questions[j].question_number < questions[k].question_number
            /\ (questions[j].is_active /\ questions[k].is_active) =>
                  questions[j].question_number # questions[k].question_number

\* C7: for a .docx upload whose Snapshot Parser raises, parse_document yields what
\* the Line-Classification Parser yields for the same bytes and question type, and
\* the upload succeeds whenever that parser returns.
C7_SnapshotFallback ==
    (/\ upload # NoUpload
     /\ Ran(upload, "snapshot")
     /\ parse_docx_snapshot(upload.content, upload.file.filename).raised) =>
        /\ upload.parse =
              original_parse(upload.content, upload.file.filename, upload.question_type)
        /\ ~upload.parse.raised =>
              /\ upload.result.success
              /\ upload.result.format = "docx"
              /\ upload.parse.value.question_type = upload.question_type
              /\ upload.parse.value.doc = upload.content.doc

C7_Witness ==
    /\ upload # NoUpload
    /\ Ran(upload, "snapshot")
    /\ upload.content.snapshot_breaks
    /\ upload.content.readable
    /\ upload.question_type = "theory"
    /\ ~upload.parse.raised
    /\ upload.parse.value.format = "docx"
    /\ upload.result.success

Structured(r) ==
    /\ "success" \in DOMAIN r
    /\ r.success \in BOOLEAN
    /\ ~r.success => "error" \in DOMAIN r

\* C8: every result of process_upload and of save_questions_to_exam carries a
\* boolean success flag and, when it is a failure, an error message.
C8_StructuredResults ==
    /\ upload # NoUpload => Structured(upload.result)
    /\ \A p \in Procs : call[p].pc = "done" => Structured(call[p].result)

InputError(file) ==
    \/ ~file.present
    \/ file.filename = ""
    \/ file_ext(file.filename) \notin allowed_extensions

Oversized(file) == file.has_content_length /\ file.content_length > max_file_size

\* C9: an upload changes nothing in the store; with a missing file, a missing
\* name or an unsupported extension neither the exam lookup nor a parser runs;
\* with an exam that does not exist neither a parser nor the validator runs, and
\* the result of an acceptable file is the failure 'Exam not found'.
C9_InputErrorsFirst ==
    [][upload' # upload =>
        /\ store' = store
        /\ InputError(upload'.file) =>
              /\ ~Ran(upload', "find_exam")
              /\ ~Ran(upload', "read")
              /\ ~ParserRan(upload')
              /\ "error" \in DOMAIN upload'.result
        /\ upload'.exam_id = "missing" =>
              /\ ~Ran(upload', "read")
              /\ ~ParserRan(upload')
              /\ ~Ran(upload', "validate_batch")
              /\ (~InputError(upload'.file) /\ ~Oversized(upload'.file)) =>
                    upload'.result = [success |-> FALSE, error |-> "Exam not found"]
      ]_vars

C9_Witness ==
    /\ upload # NoUpload
    /\ upload.exam_id = "missing"
    /\ upload.file.present
    /\ file_ext(upload.file.filename) = ".pdf"
    /\ upload.ran = <<"validate_file", "find_exam">>
    /\ upload.result = [success |-> FALSE, error |-> "Exam not found"]

\* C10: an artifact that is empty or larger than 50 MB is rejected before a
\* parser runs, whether or not the upload object reports a content length.
C10_SizeChecked ==
    (/\ upload # NoUpload
     /\ upload.file.present
     /\ upload.file.size = 0 \/ upload.file.size > max_file_size) =>
        /\ ~ParserRan(upload)
        /\ "error" \in DOMAIN upload.result

\* the valid and the invalid drafts of one type in the response
ValidOf(r, t) == r.valid_questions[t]

InvalidOf(r, t) == r.invalid_questions[t]

Min(a, b) == IF a <= b THEN a ELSE b

\* a preview list holds exactly the first min(limit, n) entries of the list l
FirstOf(preview_list, l, limit) ==
    /\ Len(preview_list) = Min(limit, Len(l))
    /\ \A k \in 1..Len(preview_list) : preview_list[k] = l[k]

PreviewBounded(r) ==
    /\ FirstOf(r.preview.mcq_preview, ValidOf(r, "mcq"), 3)
    /\ FirstOf(r.preview.theory_preview, ValidOf(r, "theory"), 3)
    /\ FirstOf(r.preview.instructions_preview, r.valid_instructions, 5)
    /\ r.preview.has_more_mcq = (Len(ValidOf(r, "mcq")) > 3)
    /\ r.preview.has_more_theory = (Len(ValidOf(r, "theory")) > 3)
    /\ r.preview.has_more_instructions = (Len(r.valid_instructions) > 5)
    /\ Len(ValidOf(r, "mcq")) = r.statistics.mcq_valid
    /\ Len(ValidOf(r, "theory")) = r.statistics.theory_valid
    /\ Len(r.valid_instructions) = r.statistics.instructions_valid

\* C11 (as claimed): a successful response carries a preview holding exactly the
\* first min(3, n) valid MCQ drafts, the first min(3, n) valid Theory drafts and
\* the first min(5, n) valid instructions in batch order, has_more_* is true
\* exactly when more exist, and no field of the response carries more drafts
\* than the preview does.
C11_NeverFullBatch ==
    processing # Empty =>
        LET r == processing.result IN
        /\ PreviewBounded(r)
        /\ \A f \in DOMAIN r :
              /\ f \in {"valid_questions", "invalid_questions"} =>
                    Len(r[f].mcq) <= 3 /\ Len(r[f].theory) <= 3
              /\ f \in {"valid_instructions", "invalid_instructions"} => Len(r[f]) <= 5

\* C11 (amended): a successful response carries a preview holding exactly the
\* first min(3, n) valid MCQ drafts, the first min(3, n) valid Theory drafts and
\* the first min(5, n) valid instructions in batch order, has_more_* is true
\* exactly when more exist, and the preview never carries more than 3, 3 and 5
\* entries; next to the preview the response carries every valid draft and
\* instruction in valid_questions and valid_instructions.
C11_BoundedPreview ==
    processing # Empty =>
        LET r == processing.result IN
        /\ r.success
        /\ PreviewBounded(r)
        /\ Len(r.preview.mcq_preview) <= 3
        /\ Len(r.preview.theory_preview) <= 3
        /\ Len(r.preview.instructions_preview) <= 5
        /\ {"valid_questions", "valid_instructions"} \subseteq DOMAIN r

C11_Witness ==
    /\ processing # Empty
    /\ processing.result.statistics.instructions_valid = 6
    /\ Len(processing.result.preview.instructions_preview) = 5
    /\ processing.result.preview.has_more_instructions
    /\ ~processing.result.preview.has_more_mcq

ElementsOf(l) == {l[k] : k \in DOMAIN l}

\* C12: batch validation leaves every input draft as it was, options list and
\* sub_questions list included, in strict and in lenient mode, and a draft that
\* ends in invalid is reported with the content it had before the call.
C12_DraftsNotMutated ==
    processing # Empty =>
        /\ processing.after = processing.parse_result
        /\ \A e \in ElementsOf(InvalidOf(processing.result, "mcq")) :
                e.question \in ElementsOf(processing.parse_result.mcq_questions)
        /\ \A e \in ElementsOf(InvalidOf(processing.result, "theory")) :
                e.question \in ElementsOf(processing.parse_result.theory_questions)

\* the entries of the valid and of the invalid list that stand for draft number k
EntriesFor(r, t, k) ==
    Cardinality({j \in DOMAIN ValidOf(r, t) : ValidOf(r, t)[j].question_number = k})
    + Cardinality({j \in DOMAIN InvalidOf(r, t) :
                        InvalidOf(r, t)[j].question.question_number = k})

\* C13: in strict and in lenient mode every parsed draft ends in exactly one of
\* valid and invalid: for MCQ, Theory and instructions valid + invalid = parsed,
\* and total_valid + total_invalid = total_parsed in the statistics.
C13_Partition ==
    processing # Empty =>
        LET r == processing.result
            st == r.statistics
            parsed == processing.parse_result
        IN /\ \A k \in DOMAIN parsed.mcq_questions : EntriesFor(r, "mcq", k) = 1
           /\ \A k \in DOMAIN parsed.theory_questions : EntriesFor(r, "theory", k) = 1
           /\ \A k \in DOMAIN parsed.instructions :
                Cardinality({j \in DOMAIN r.valid_instructions :
                                r.valid_instructions[j].order = k - 1})
                + Cardinality({j \in DOMAIN r.invalid_instructions :
                                r.invalid_instructions[j].instruction.order = k - 1}) = 1
           /\ st.mcq_parsed = Len(parsed.mcq_questions)
           /\ st.theory_parsed = Len(parsed.theory_questions)
           /\ st.instructions_parsed = Len(parsed.instructions)
           /\ st.mcq_valid + st.mcq_invalid = st.mcq_parsed
           /\ st.theory_valid + st.theory_invalid = st.theory_parsed
           /\ st.instructions_valid + st.instructions_invalid = st.instructions_parsed
           /\ st.total_valid + st.total_invalid = st.total_parsed
           /\ st.total_parsed = st.mcq_parsed + st.theory_parsed

C13_Witness ==
    /\ processing # Empty
    /\ processing.validation_mode = "lenient"
    /\ processing.result.statistics.mcq_parsed = 4
    /\ processing.result.statistics.mcq_valid = 2
    /\ processing.result.statistics.mcq_invalid = 2
    /\ processing.result.statistics.theory_invalid = 1
    /\ processing.result.statistics.instructions_invalid = 1
    /\ \E j \in DOMAIN processing.result.errors :
            processing.result.errors[j].note = "Validation error"
    /\ \E j \in DOMAIN processing.result.errors :
            processing.result.errors[j].note = "Fixed automatically"

\* what validate_mcq_question requires of a draft
PassesMcq(d) ==
    /\ "question_text" \in DOMAIN d /\ d.question_text \notin {"", " "}
    /\ "options" \in DOMAIN d /\ Len(d.options) >= 2
    /\ "correct_option" \in DOMAIN d /\ IsInt(d.correct_option)
    /\ d.correct_option.int \in 0..(Len(d.options) - 1)
    /\ "marks" \in DOMAIN d /\ IsInt(d.marks) /\ d.marks.int > 0
    /\ "instruction_id" \in DOMAIN d => (d.instruction_id = None \/ IsStr(d.instruction_id))

\* what validate_theory_question requires of a draft
PassesTheory(d) ==
    /\ "sub_questions" \in DOMAIN d /\ Len(d.sub_questions) >= 1
    /\ \A j \in DOMAIN d.sub_questions :
            /\ "sub_text" \in DOMAIN d.sub_questions[j]
            /\ d.sub_questions[j].sub_text \notin {"", " "}
            /\ "sub_marks" \in DOMAIN d.sub_questions[j]
            /\ d.sub_questions[j].sub_marks > 0
    /\ "instruction_id" \in DOMAIN d => (d.instruction_id = None \/ IsStr(d.instruction_id))

\* C14: in strict and in lenient mode every draft of the valid list passes the
\* validator of its type, and a draft that is not accepted, repaired or not, is
\* in invalid.
C14_ValidPasses ==
    processing # Empty =>
        LET r == processing.result IN
        /\ \A d \in ElementsOf(ValidOf(r, "mcq")) : PassesMcq(d)
        /\ \A d \in ElementsOf(ValidOf(r, "theory")) : PassesTheory(d)
        /\ Len(ValidOf(r, "mcq")) + Len(InvalidOf(r, "mcq"))
                = Len(processing.parse_result.mcq_questions)
        /\ Len(ValidOf(r, "theory")) + Len(InvalidOf(r, "theory"))
                = Len(processing.parse_result.theory_questions)

\* a repaired draft was accepted, and another repair was rejected
C14_Witness ==
    /\ processing # Empty
    /\ processing.validation_mode = "lenient"
    /\ processing.parse_result.mcq_questions # <<>>
    /\ "marks" \notin DOMAIN processing.parse_result.mcq_questions[1]
    /\ processing.parse_result.mcq_questions[1].options = <<>>
    /\ Len(ValidOf(processing.result, "mcq")) = 1
    /\ ValidOf(processing.result, "mcq")[1].options = <<"Option 1", "Option 2">>
    /\ ValidOf(processing.result, "mcq")[1].marks = PyInt(1)

\* the draft of the lenient-repair example: text, exactly one option, no
\* correct_option; marks, if any, a number and instruction_id null or a string
OneOptionDraft(d) ==
    /\ d.question_text \notin {"", " "}
    /\ "options" \in DOMAIN d /\ Len(d.options) = 1
    /\ "correct_option" \notin DOMAIN d
    /\ "marks" \in DOMAIN d => IsInt(d.marks)
    /\ d.instruction_id = None \/ IsStr(d.instruction_id)

\* C15: an MCQ draft with non-empty question text, exactly one option and no
\* correct_option is accepted in lenient mode, with 2 options (its own first) and
\* correct_option = 0; in strict mode it is placed in invalid, unchanged.
C15_LenientRepair ==
    (processing # Empty /\ processing.parse_result.mcq_questions # <<>>
        /\ OneOptionDraft(processing.parse_result.mcq_questions[1])) =>
        LET r == processing.result
            draft == processing.parse_result.mcq_questions[1]
        IN IF processing.validation_mode = "lenient"
           THEN /\ InvalidOf(r, "mcq") = <<>>
                /\ Len(ValidOf(r, "mcq")) = 1
                /\ Len(ValidOf(r, "mcq")[1].options) = 2
                /\ ValidOf(r, "mcq")[1].options[1] = draft.options[1]
                /\ ValidOf(r, "mcq")[1].correct_option = PyInt(0)
                /\ r.statistics.mcq_valid = 1
           ELSE /\ ValidOf(r, "mcq") = <<>>
                /\ Len(InvalidOf(r, "mcq")) = 1
                /\ InvalidOf(r, "mcq")[1].question = draft
                /\ processing.after = processing.parse_result

C15_Witness ==
    /\ processing # Empty
    /\ processing.validation_mode = "lenient"
    /\ processing.parse_result.mcq_questions # <<>>
    /\ OneOptionDraft(processing.parse_result.mcq_questions[1])
    /\ processing.parse_result.mcq_questions[1].options = <<"A">>
    /\ ValidOf(processing.result, "mcq")[1].options = <<"A", "Option 2">>
    /\ ValidOf(processing.result, "mcq")[1].correct_option = PyInt(0)

\* C16: every MCQ draft accepted by batch validation has at least 2 options,
\* pairwise distinct and non-empty, and a correct_option within their bounds;
\* every accepted Theory draft has at least one sub-question and every
\* sub-question has positive marks.
C16_AcceptedWellFormed ==
    processing # Empty =>
        LET r == processing.result IN
        /\ \A d \in ElementsOf(ValidOf(r, "mcq")) :
                /\ Len(d.options) >= 2
                /\ \A j \in DOMAIN d.options : d.options[j] \notin {"", " "}
                /\ \A j, k \in DOMAIN d.options : j # k => d.options[j] # d.options[k]
                /\ IsInt(d.correct_option)
                /\ d.correct_option.int \in 0..(Len(d.options) - 1)
        /\ \A d \in ElementsOf(ValidOf(r, "theory")) :
                /\ Len(d.sub_questions) >= 1
                /\ \A j \in DOMAIN d.sub_questions : d.sub_questions[j].sub_marks > 0

\* the questions a parser run has emitted so far, as the range pass walks them
Emitted(st) == st.mcq_questions \o st.theory_questions

InRange(instruction, q) ==
    /\ instruction.type = "range"
    /\ instruction.start_question <= q.question_number
    /\ q.question_number <= instruction.end_question

\* the range instructions of a run, by position, whose range holds question q
Covering(st, q) == {i \in DOMAIN st.instructions : InRange(st.instructions[i], q)}

\* the least member of a non-empty set of naturals
Least(S) == CHOOSE i \in S : \A j \in S : i <= j

\* C17 (as claimed): on the final instruction-scope pass every range instruction
\* gets its id on every emitted question whose number is in its range and that
\* had no instruction id before the pass, and no question that had an
\* instruction id before the pass has another one after it.
C17_RangePassAll ==
    [][(parsing.pc = "ranges" /\ parsing'.pc = "done") =>
        \A k \in DOMAIN Emitted(parsing) :
            LET before == Emitted(parsing)[k]
                after == Emitted(parsing')[k]
            IN /\ before.instruction_id # None =>
                    after.instruction_id = before.instruction_id
               /\ before.instruction_id = None =>
                    \A i \in Covering(parsing, before) :
                        after.instruction_id = PyStr(parsing.instructions[i].id)
      ]_vars

\* C17 (amended): on the final instruction-scope pass every emitted question
\* that had no instruction id before the pass and whose number is in the range
\* of some range instruction gets the id of the first such instruction in
\* document order (the one that finds it without an id), a question in no range
\* stays without one, and no question that had an instruction id before the
\* pass has another one after it.
C17_RangePass ==
    [][(parsing.pc = "ranges" /\ parsing'.pc = "done") =>
        /\ Len(Emitted(parsing')) = Len(Emitted(parsing))
        /\ \A k \in DOMAIN Emitted(parsing) :
            LET before == Emitted(parsing)[k]
                after == Emitted(parsing')[k]
            IN /\ before.instruction_id # None =>
                    after.instruction_id = before.instruction_id
               /\ (before.instruction_id = None /\ Covering(parsing, before) # {}) =>
                    after.instruction_id =
                        PyStr(parsing.instructions[Least(Covering(parsing, before))].id)
               /\ (before.instruction_id = None /\ Covering(parsing, before) = {}) =>
                    after.instruction_id = None
      ]_vars

\* two questions ahead of the first header, then 'For Questions 1-2', then a
\* header: the pass gave both questions the id of the range instruction
C17_Witness ==
    /\ parsing.pc = "done"
    /\ Len(parsing.blocks) = 4
    /\ parsing.blocks[1].question /\ parsing.blocks[2].question
    /\ parsing.blocks[3] = HeaderBlock(RangeMatch(1, 2))
    /\ parsing.blocks[4].header # <<>>
    /\ Len(parsing.theory_questions) = 2
    /\ \A k \in 1..2 : parsing.theory_questions[k].instruction_id = PyStr(uuid4(1))

\* the position in the document of the block that opened question number n
OpenedAt(st, n) ==
    CHOOSE p \in DOMAIN st.blocks :
        /\ st.blocks[p].header = <<>> /\ st.blocks[p].question
        /\ Cardinality({j \in 1..p : st.blocks[j].header = <<>> /\ st.blocks[j].question}) = n

\* the instructions, by position, whose header precedes block p
HeadersBefore(st, p) == Cardinality({j \in 1..(p - 1) : st.blocks[j].header # <<>>})

\* C18: a question parsed under a general or a section instruction (the last
\* header before it) whose number lies in the range of a range instruction of
\* the same document ends with the id of a range instruction that holds it.
C18_RangeMostSpecific ==
    parsing.pc = "done" =>
        \A k \in DOMAIN Emitted(parsing) :
            LET q == Emitted(parsing)[k]
                last == HeadersBefore(parsing, OpenedAt(parsing, q.question_number))
            IN (/\ last > 0
                /\ parsing.instructions[last].type \in {"general", "section"}
                /\ Covering(parsing, q) # {}) =>
                    \E i \in Covering(parsing, q) :
                        q.instruction_id = PyStr(parsing.instructions[i].id)

-----------------------------------------------------------------------------
\* the options of the dedup example: "4 (correct)", "Four", "4 (correct)", "Six"
DedupExample == <<Opt_4_correct, Opt_Four, Opt_4_correct, Opt_Six>>

\* the example was normalized, the correct option being one of the two marked ones
DedupExampleNormalized ==
    /\ parsing # Empty
    /\ parsing.pc = "normalized"
    /\ parsing.question.options = DedupExample
    /\ parsing.question.correct_option \in {0, 2}

\* the retained option that correct_option points at, <<>> when it points nowhere
CorrectOptionOf(question) ==
    IF question.correct_option < Len(question.options)
    THEN question.options[question.correct_option + 1]
    ELSE <<>>

\* C19 (as claimed): normalization of a question with the options "4 (correct)",
\* "Four", "4 (correct)", "Six" leaves 2 options, and correct_option points at
\* the first retained option that reads "4".
C19_DedupTwo ==
    DedupExampleNormalized =>
        /\ Len(parsing.after.options) = 2
        /\ strip_html(CorrectOptionOf(parsing.after)) = <<"4">>
        /\ \A k \in 1..parsing.after.correct_option :
              strip_html(parsing.after.options[k]) # <<"4">>

\* C19 (amended): normalization of a question with the options "4 (correct)",
\* "Four", "4 (correct)", "Six" leaves the 3 options "4 (correct)", "Four", "Six"
\* (only the repeated "4 (correct)" goes), and correct_option is 0, the retained
\* "4 (correct)", when it was 0 or 2 before.
C19_DedupThree ==
    DedupExampleNormalized =>
        /\ parsing.after.options = <<Opt_4_correct, Opt_Four, Opt_Six>>
        /\ parsing.after.correct_option = 0
        /\ strip_html(CorrectOptionOf(parsing.after)) = <<"4">>

\* the example was normalized with its second "4 (correct)" as correct option,
\* the one that is dropped
C19_Witness ==
    /\ DedupExampleNormalized
    /\ parsing.question.correct_option = 2
    /\ Len(parsing.after.options) = 3

-----------------------------------------------------------------------------
\* C20: parsing the 2-question document ("1. Capital of France? [2 marks]",
\* "a) London", "b) Paris*", a blank line, "2) 2+2 1m", "a. Three",
\* "b. Four (correct)") with question_type auto yields exactly 2 MCQ drafts and
\* no Theory draft, the first with marks 2 and correct_option 1, the second with
\* marks 1 and correct_option 1.
C20_TwoQuestionDocument ==
    (/\ parsing # Empty
     /\ parsing.pc = "returned"
     /\ parsing.paragraphs = TwoQuestionDocument) =>
        /\ Len(parsing.result.mcq_questions) = 2
        /\ parsing.result.theory_questions = <<>>
        /\ parsing.result.mcq_questions[1].marks = 2
        /\ parsing.result.mcq_questions[1].correct_option = 1
        /\ parsing.result.mcq_questions[2].marks = 1
        /\ parsing.result.mcq_questions[2].correct_option = 1

-----------------------------------------------------------------------------
\* C23: when a save_questions_to_exam that saved MCQ drafts has returned, every
\* active MCQ question of the exam, those of earlier saves included, carries the
\* equalized marks max(1, 30 div n) of this save of n MCQ drafts.
C23_AllMcqEqualized ==
    \A p \in Procs :
        (/\ call[p].pc = "done"
         /\ call[p].n_mcq >= 1
         /\ call[p].saved_mcq # <<>>) =>
            \A k \in 1..Len(questions) :
                (questions[k].question_type = "mcq" /\ questions[k].is_active) =>
                    questions[k].marks = mcq_marks_per_question(call[p].n_mcq)

-----------------------------------------------------------------------------
\* C24: every question the Snapshot Parser returns, the last one of the document
\* included, has no option whose canonical key (strip_html, lower) is empty and
\* no two options with the same canonical key.
C24_ReturnedNormalized ==
    parsing # Empty /\ parsing.pc = "returned" =>
        \A k \in 1..Len(parsing.result.mcq_questions) :
            \A i \in 1..Len(parsing.result.mcq_questions[k].options) :
                /\ strip_html(parsing.result.mcq_questions[k].options[i]) # <<>>
                /\ \A j \in 1..(i - 1) :
                       lower(strip_html(parsing.result.mcq_questions[k].options[j]))
                           # lower(strip_html(parsing.result.mcq_questions[k].options[i]))

-----------------------------------------------------------------------------
\* the canonical key of an option: strip_html(opt).lower()
CanonicalKey(opt) == lower(strip_html(opt))

-----------------------------------------------------------------------------
\* C30: when parse_document of a .docx was asked for 'mcq' or for 'theory', the
\* drafts it returns all have that type: none is in theory_questions for 'mcq',
\* none is in mcq_questions for 'theory'.
C30_RequestedType ==
    parsing # Empty /\ parsing.pc = "returned" =>
        /\ parsing.question_type = "mcq" => parsing.result.theory_questions = <<>>
        /\ parsing.question_type = "theory" => parsing.result.mcq_questions = <<>>

-----------------------------------------------------------------------------
\* the last element of a non-empty sequence
Last(s) == s[Len(s)]

\* a block that no instruction, question, option or sub-question rule matches
IsContinuation(b) ==
    /\ b.header = <<>> /\ ~b.standalone
    /\ ~b.question /\ ~b.option /\ ~b.sub_question

\* C26: when the parser has just read a block that matches no rule while a
\* question is open, the text of the block is the end of the question body if
\* the question has no option and no sub-question yet, and else the end of the
\* last option (MCQ) or of the last sub-question (Theory).
C26_ContinuationKept ==
    (/\ parsing.pc \in {"scan", "scan_html"}
     /\ parsing.blocks # <<>>
     /\ IsContinuation(Last(parsing.blocks))
     /\ parsing.current_question # <<>>) =>
        IF /\ parsing.current_question[1].options = <<>>
           /\ parsing.current_question[1].sub_questions = <<>>
        THEN Last(parsing.current_question[1].question_text) = Last(parsing.blocks).text
        ELSE IF parsing.current_question[1].options # <<>>
        THEN Last(Last(parsing.current_question[1].options)) = Last(parsing.blocks).text
        ELSE Last(Last(parsing.current_question[1].sub_questions).sub_text)
                = Last(parsing.blocks).text

-----------------------------------------------------------------------------
\* the number of blocks of the document that started a question
QuestionStarts(st) ==
    Cardinality({p \in DOMAIN st.blocks : st.blocks[p].header = <<>> /\ st.blocks[p].question})

\* the numbers of a list of drafts increase
Increasing(drafts) ==
    \A j, k \in DOMAIN drafts :
        j < k => drafts[j].question_number < drafts[k].question_number

\* C27 (as claimed): of a document parsed by _extract_questions_from_docx, the
\* k-th MCQ draft has question_number k and the k-th Theory draft has
\* question_number k.
C27_NumberByType ==
    parsing.pc = "done" =>
        /\ \A k \in DOMAIN parsing.mcq_questions :
                parsing.mcq_questions[k].question_number = k
        /\ \A k \in DOMAIN parsing.theory_questions :
                parsing.theory_questions[k].question_number = k

\* C27 (amended): the question_number of a draft is the 1-based position of the
\* block that started it among all the question starts of the document, of
\* either type and emitted or not: the n-th question start has the type of the
\* draft numbered n, every Theory start has its draft, and the numbers increase
\* along each list.
C27_NumberByPosition ==
    parsing.pc = "done" =>
        /\ \A k \in DOMAIN Emitted(parsing) :
            /\ Emitted(parsing)[k].question_number \in 1..QuestionStarts(parsing)
            /\ parsing.blocks[OpenedAt(parsing, Emitted(parsing)[k].question_number)].type
                    = Emitted(parsing)[k].question_type
        /\ \A n \in 1..QuestionStarts(parsing) :
            parsing.blocks[OpenedAt(parsing, n)].type = "theory" =>
                \E k \in DOMAIN parsing.theory_questions :
                    parsing.theory_questions[k].question_number = n
        /\ Increasing(parsing.mcq_questions)
        /\ Increasing(parsing.theory_questions)

\* a Theory question, then an MCQ question with two options: the only MCQ
\* draft of the document has number 2
C27_Witness ==
    /\ parsing.pc = "done"
    /\ Len(parsing.blocks) = 4
    /\ parsing.blocks[1] = QuestionBlock("theory", 2)
    /\ parsing.blocks[2] = QuestionBlock("mcq", 1)
    /\ Len(parsing.theory_questions) = 1
    /\ parsing.theory_questions[1].question_number = 1
    /\ Len(parsing.mcq_questions) = 1
    /\ parsing.mcq_questions[1].question_number = 2

-----------------------------------------------------------------------------
\* the parser has returned, on the DOCX or on the HTML path
ParserDone == parsing.pc \in {"done", "done_html"}

\* the blocks of the unit that the n-th question start opened: those after it
\* and before the next header or question start
UnitBlocks(st, n) ==
    {p \in DOMAIN st.blocks :
        /\ p > OpenedAt(st, n)
        /\ \A j \in (OpenedAt(st, n) + 1)..p :
               st.blocks[j].header = <<>> /\ ~st.blocks[j].question}

\* the number of options that the unit of the n-th question start captured
UnitOptions(st, n) ==
    Cardinality({p \in UnitBlocks(st, n) : st.blocks[p].option})

\* C28: every MCQ draft of the parser, on either path and at any moment, has at
\* least 2 options and a correct_option that is an index into them; and once the
\* parser has returned, a unit classified as MCQ has a draft exactly when it
\* captured at least 2 options, the draft holding the options it captured.
C28_McqDraftsSound ==
    /\ \A k \in DOMAIN parsing.mcq_questions :
        /\ Len(parsing.mcq_questions[k].options) >= 2
        /\ parsing.mcq_questions[k].correct_option
                \in 0..(Len(parsing.mcq_questions[k].options) - 1)
    /\ ParserDone =>
        \A n \in 1..QuestionStarts(parsing) :
            parsing.blocks[OpenedAt(parsing, n)].type = "mcq" =>
                IF UnitOptions(parsing, n) < 2
                THEN \A k \in DOMAIN parsing.mcq_questions :
                        parsing.mcq_questions[k].question_number # n
                ELSE \E k \in DOMAIN parsing.mcq_questions :
                        /\ parsing.mcq_questions[k].question_number = n
                        /\ Len(parsing.mcq_questions[k].options) = UnitOptions(parsing, n)

\* an MCQ unit without options was dropped and the next one was emitted with its
\* second option as the correct one
C28_Witness ==
    /\ parsing.pc = "done_html"
    /\ parsing.blocks = <<QuestionBlock("mcq", 1), QuestionBlock("mcq", 1),
                          OptionBlock(FALSE), OptionBlock(TRUE)>>
    /\ Len(parsing.mcq_questions) = 1
    /\ parsing.mcq_questions[1].correct_option = 1

-----------------------------------------------------------------------------
\* the number of sub-questions that the unit of the n-th question start
\* captured: the HTML path captures none
UnitSubQuestions(st, n) ==
    IF st.pc = "done_html" THEN 0
    ELSE Cardinality({p \in UnitBlocks(st, n) : st.blocks[p].sub_question})

-----------------------------------------------------------------------------
\* C21: a documented question start is a question start for
\* _detect_question_pattern and no option start for _detect_option_pattern, and
\* a documented short option is an option start and no question start.
C21_DetectorsExclusive ==
    (/\ parsing.pc = "patterns"
     /\ parsing.question # <<>>
     /\ parsing.option # <<>>) =>
        /\ parsing.text \in QuestionCatalogue =>
                parsing.question[1] /\ ~parsing.option[1]
        /\ parsing.text \in OptionCatalogue =>
                parsing.option[1] /\ ~parsing.question[1]

-----------------------------------------------------------------------------
\* the patterns of mark_patterns whose capture in the text is a number in
\* [1, 100]
GoodPatterns(text) ==
    {i \in DOMAIN mark_patterns :
        /\ capture(lower(text), mark_patterns[i]) # <<>>
        /\ to_int(capture(lower(text), mark_patterns[i])) \in 1..100}

\* the positions of the standalone numbers of the text that are in [1, 20]
StandaloneNumbers(text) == {p \in DOMAIN text : standalone_at(text, p)}

\* r is what the rule gives for the text: the capture of the first pattern with
\* a capture in [1, 100], else the first standalone number in [1, 20], else 1
MarksRule(text, r) ==
    /\ r \in 1..100
    /\ IF GoodPatterns(text) # {}
       THEN r = to_int(capture(lower(text), mark_patterns[Least(GoodPatterns(text))]))
       ELSE IF StandaloneNumbers(text) # {}
       THEN r = to_int(digits_at(text, Least(StandaloneNumbers(text))))
       ELSE r = 1

\* C22 (as claimed): _extract_marks returns an integer in [1, 100] that follows
\* the rule; it returns 10 for 'Explain photosynthesis [10 marks]' and 1 for
\* 'What is 2+2?'.
C22_MarksAsClaimed ==
    (parsing.pc = "patterns" /\ parsing.marks # <<>>) =>
        /\ MarksRule(parsing.text, parsing.marks[1])
        /\ parsing.text = Stem_Explain \o Note_10_marks => parsing.marks[1] = 10
        /\ parsing.text = Stem_Sum => parsing.marks[1] = 1

\* C22 (amended): _extract_marks returns an integer in [1, 100] that follows
\* the rule; it returns 10 for 'Explain photosynthesis [10 marks]', 2 (the
\* first standalone number) for 'What is 2+2?' and 1 (the default) for
\* 'Explain photosynthesis'.
C22_MarksRule ==
    (parsing.pc = "patterns" /\ parsing.marks # <<>>) =>
        /\ MarksRule(parsing.text, parsing.marks[1])
        /\ parsing.text = Stem_Explain \o Note_10_marks => parsing.marks[1] = 10
        /\ parsing.text = Stem_Sum => parsing.marks[1] = 2
        /\ parsing.text = Stem_Explain => parsing.marks[1] = 1

\* _extract_marks was called on 'What is 2+2?' and found the standalone 2
C22_Witness ==
    /\ parsing.pc = "patterns"
    /\ parsing.text = Stem_Sum
    /\ parsing.marks = <<2>>

-----------------------------------------------------------------------------
\* C33: once two interleaved saves of one exam have both finished, no two
\* stored questions of one type carry the same question_number.
C33_ConcurrentNumbers ==
    (\A p \in Procs : call[p].pc = "done") =>
        \A j, k \in 1..Len(questions) :
            (j < k /\ questions[j].question_type = questions[k].question_type) =>
                questions[j].question_number # questions[k].question_number

-----------------------------------------------------------------------------
RECURSIVE marks_of(_, _)
\* the sum of the marks of the stored questions ids[i..]
marks_of(ids, i) ==
    IF i > Len(ids) THEN 0 ELSE questions[ids[i]].marks + marks_of(ids, i + 1)

\* C36: when a save of n >= 1 MCQ drafts has stored all n of them, the sum of
\* their marks is at most the pool of 30 marks.
C36_PoolNotExceeded ==
    \A p \in Procs :
        (/\ call[p].pc = "done"
         /\ call[p].n_mcq >= 1
         /\ Len(call[p].saved_mcq) = call[p].n_mcq) =>
            marks_of(call[p].saved_mcq, 1) <= total_mcq_marks

\* C31: a block 'Instructions for Questions M-N: <text>' is classified as an
\* instruction of type range that applies to the question range M..N.
C31_RangeHeader ==
    \A r \in RangeNumbers, b \in HeaderBodies :
        (/\ parsing.pc = "header"
         /\ parsing.text = Head_Instructions_for_Questions \o r.text \o <<":", " ">> \o b
         /\ parsing.header # <<>>) =>
            /\ parsing.header[1] # None
            /\ parsing.header[1].type = "range"
            /\ parsing.header[1].applies_to = "question_range"
            /\ parsing.header[1].start_question = r.M
            /\ parsing.header[1].end_question = r.N

\* a block b without a formal header that satisfies the standalone heuristic
\* is read while a question is open
StandaloneInsideQuestion(b) ==
    /\ parsing.pc \in {"scan", "scan_html"}
    /\ parsing.current_question # <<>>
    /\ b.standalone /\ b.header = <<>>
    /\ parsing'.blocks = Append(parsing.blocks, b)

\* C32: a block that satisfies the standalone-instruction heuristic and no
\* formal header, read while a question is open, creates no instruction and
\* does not close the question: the same question stays open and nothing is
\* saved.
C32_StandaloneOnlyBetweenQuestions ==
    [][\A b \in StandaloneBlocks :
          StandaloneInsideQuestion(b) =>
              /\ parsing'.instructions = parsing.instructions
              /\ parsing'.current_instruction = parsing.current_instruction
              /\ parsing'.current_question # <<>>
              /\ parsing'.current_question[1].question_number
                    = parsing.current_question[1].question_number
              /\ parsing'.mcq_questions = parsing.mcq_questions
              /\ parsing'.theory_questions = parsing.theory_questions]_vars

\* a heuristic instruction was read before a question and another inside it:
\* only the first became an instruction and the question is still open
C32_Witness ==
    /\ parsing.pc = "scan"
    /\ parsing.blocks = <<StandaloneBlock, QuestionBlock("theory", 2), StandaloneBlock>>
    /\ Len(parsing.instructions) = 1
    /\ parsing.current_question # <<>>
    /\ parsing.theory_questions = <<>>

\* the paragraph starts an option of an open question
StartsOption(paragraph) ==
    /\ strip_chars(paragraph.text) # <<>>
    /\ detect_question_number(strip_chars(paragraph.text)) = NoMatch
    /\ detect_option_letter(strip_chars(paragraph.text)) # NoMatch

\* the content captured for the option that the paragraph starts and that no
\* other paragraph continues, as _finalize_option cleans it
CapturedOption(paragraph) ==
    finalize_option(new_snapshot_question(1),
        <<capture_paragraph_content(paragraph,
              detect_option_letter(strip_chars(paragraph.text)).text_after)>>,
        0).options[1]

RECURSIVE InOrderFrom(_, _, _, _)
\* the members k.. of captured stand in options[j..], in the order of captured
InOrderFrom(captured, options, k, j) ==
    IF k > Len(captured) THEN TRUE
    ELSE IF j > Len(options) THEN FALSE
    ELSE IF options[j] = captured[k] THEN InOrderFrom(captured, options, k + 1, j + 1)
    ELSE InOrderFrom(captured, options, k, j + 1)

\* the members of captured stand in options, in the order of captured
InOrder(captured, options) == InOrderFrom(captured, options, 1, 1)

\* C37: for a document of one question start followed by option starts only,
\* the emitted question holds every captured option, in document order,
\* whatever the letters of the options are.
C37_OptionsRetained ==
    (/\ parsing # Empty
     /\ parsing.pc = "returned"
     /\ Len(parsing.paragraphs) >= 2
     /\ detect_question_number(strip_chars(parsing.paragraphs[1].text)) # NoMatch
     /\ \A k \in 2..Len(parsing.paragraphs) : StartsOption(parsing.paragraphs[k])) =>
        /\ Len(parsing.result.mcq_questions) = 1
        /\ InOrder([k \in 1..(Len(parsing.paragraphs) - 1) |->
                        CapturedOption(parsing.paragraphs[k + 1])],
                   parsing.result.mcq_questions[1].options)

\* the drafts of a type in the parse result that was processed
DraftsOf(t) ==
    Get(processing.parse_result, IF t = "mcq" THEN "mcq_questions" ELSE "theory_questions",
        <<>>)

\* the drafts of a type that strict validation of the processed batch places
\* in valid
StrictValid(t) == validate_questions_batch(DraftsOf(t), t, "strict").valid

\* C35: every draft that strict validation places in valid is placed in valid
\* by lenient validation of the same batch, unmodified and in the same
\* relative order.
C35_LenientSuperset ==
    (processing # Empty /\ processing.validation_mode = "lenient") =>
        \A t \in {"mcq", "theory"} :
            InOrder(StrictValid(t), processing.result.valid_questions[t])

\* a batch was validated leniently in which a repaired draft stands between
\* two drafts that are valid as they are
C35_Witness ==
    /\ processing # Empty
    /\ processing.validation_mode = "lenient"
    /\ Len(StrictValid("mcq")) = 2
    /\ Len(processing.result.valid_questions.mcq) = 3
    /\ processing.result.valid_questions.mcq[2] \notin ElementsOf(StrictValid("mcq"))

\* C34: after a save has returned, every question it stored with an
\* instruction_id other than None names an instruction that the save stored:
\* the exam held no instruction before, so that the stored instructions of the
\* exam are those of instruction_map.
C34_InstructionsReferenced ==
    (call["A"].pc = "done" /\ call["A"].result.success) =>
        \A k \in ElementsOf(call["A"].saved_mcq \o call["A"].saved_theory) :
            questions[k].instruction_id # None =>
                questions[k].instruction_id.str \in call["A"].instruction_map

====
